---- MODULE Spec2Model ----
(***************************************************************************)
(* A model of the MySQL Handbook's query simulators:                       *)
(*   - the SQL Query Editor session (pages/SQLQueryEditor.py): session     *)
(*     state, QueryExecutor, Query History and Favorites;                  *)
(*   - the Basic Query simulators (pages/02_BasicQuery.py);                *)
(*   - the aggregate simulators (pages/07_AggregateQuery.py).              *)
(* Python strings are TLA+ strings, handled character by character with    *)
(* Len, SubSeq and \o.  A Python None (and a missing dictionary key) is    *)
(* the empty tuple, a present value x is the one-element tuple <<x>>.      *)
(***************************************************************************)
EXTENDS Integers, Sequences, FiniteSets, TLC

VARIABLES
    database,        \* st.session_state.database: None, or table name -> table
    query_history,   \* st.session_state.query_history: None, or a list of entries
    favorites,       \* st.session_state.favorites: None, or a list of entries
    selected_query,  \* st.session_state.selected_query: None, or a query text
    editor_text,     \* the content of the "Enter your SQL query:" text area
    pressed,         \* the editor button whose st.button() was True in the last rerun
    topic,           \* the simulator whose parameters were drawn
    params,          \* the parameter set handed to the simulator
    pc,              \* "ready" before the simulator ran, "done" after
    out              \* what the simulator returned or displayed

vars == <<database, query_history, favorites, selected_query, editor_text,
          pressed, topic, params, pc, out>>

sessionVars == <<database, query_history, favorites, selected_query,
                 editor_text, pressed>>

simVars == <<topic, params, pc, out>>

----------------------------------------------------------------------------
(* Python values *)

None == << >>

Some(x) == <<x>>

Range(s) == {s[i] : i \in 1..Len(s)}

Min(a, b) == IF a <= b THEN a ELSE b

Max(a, b) == IF a >= b THEN a ELSE b

----------------------------------------------------------------------------
(* Python str operations, character by character *)

Char(s, i) == SubSeq(s, i, i)

LowerAlpha == "abcdefghijklmnopqrstuvwxyz"

UpperAlpha == "ABCDEFGHIJKLMNOPQRSTUVWXYZ"

Digits == "0123456789"

IndexIn(alphabet, c) ==
    IF \E i \in 1..Len(alphabet) : Char(alphabet, i) = c
    THEN CHOOSE i \in 1..Len(alphabet) : Char(alphabet, i) = c
    ELSE 0

\* The case mappings of the ASCII letters and the values of the digits, as tables.
ToUpper ==
    [c \in {Char(LowerAlpha, i) : i \in 1..Len(LowerAlpha)} |->
        Char(UpperAlpha, IndexIn(LowerAlpha, c))]

ToLower ==
    [c \in {Char(UpperAlpha, i) : i \in 1..Len(UpperAlpha)} |->
        Char(LowerAlpha, IndexIn(UpperAlpha, c))]

DigitValue == [c \in {Char(Digits, i) : i \in 1..Len(Digits)} |-> IndexIn(Digits, c) - 1]

UpperChar(c) == IF c \in DOMAIN ToUpper THEN ToUpper[c] ELSE c

LowerChar(c) == IF c \in DOMAIN ToLower THEN ToLower[c] ELSE c

RECURSIVE StrUpper(_)
StrUpper(s) ==
    IF Len(s) = 0 THEN "" ELSE UpperChar(Char(s, 1)) \o StrUpper(SubSeq(s, 2, Len(s)))

RECURSIVE StrLower(_)
StrLower(s) ==
    IF Len(s) = 0 THEN "" ELSE LowerChar(Char(s, 1)) \o StrLower(SubSeq(s, 2, Len(s)))

IsSpace(c) == c \in {" ", "\n", "\t"}

IsDigit(c) == c \in DOMAIN DigitValue

RECURSIVE LStrip(_)
LStrip(s) ==
    IF Len(s) > 0 /\ IsSpace(Char(s, 1)) THEN LStrip(SubSeq(s, 2, Len(s))) ELSE s

RECURSIVE RStrip(_)
RStrip(s) ==
    IF Len(s) > 0 /\ IsSpace(Char(s, Len(s))) THEN RStrip(SubSeq(s, 1, Len(s) - 1)) ELSE s

\* str.strip()
Strip(s) == LStrip(RStrip(s))

\* str.rstrip(ch)
RECURSIVE RStripChar(_, _)
RStripChar(s, ch) ==
    IF Len(s) > 0 /\ Char(s, Len(s)) = ch
    THEN RStripChar(SubSeq(s, 1, Len(s) - 1), ch)
    ELSE s

\* str.startswith(p)
StartsWith(s, p) == Len(s) >= Len(p) /\ SubSeq(s, 1, Len(p)) = p

\* p in s
Contains(s, p) == \E i \in 1..(Len(s) - Len(p) + 1) : SubSeq(s, i, i + Len(p) - 1) = p

\* str.replace(ch, '')
RECURSIVE RemoveChar(_, _)
RemoveChar(s, ch) ==
    IF Len(s) = 0 THEN ""
    ELSE (IF Char(s, 1) = ch THEN "" ELSE Char(s, 1)) \o RemoveChar(SubSeq(s, 2, Len(s)), ch)

\* The length of the run of non-whitespace characters that s starts with.
RECURSIVE WordLen(_)
WordLen(s) ==
    IF Len(s) > 0 /\ ~IsSpace(Char(s, 1)) THEN 1 + WordLen(SubSeq(s, 2, Len(s))) ELSE 0

\* The length of the run of whitespace characters that s starts with.
RECURSIVE SpaceLen(_)
SpaceLen(s) ==
    IF Len(s) > 0 /\ IsSpace(Char(s, 1)) THEN 1 + SpaceLen(SubSeq(s, 2, Len(s))) ELSE 0

\* The length of the run of decimal digits that s starts with.
RECURSIVE DigitLen(_)
DigitLen(s) ==
    IF Len(s) > 0 /\ IsDigit(Char(s, 1)) THEN 1 + DigitLen(SubSeq(s, 2, Len(s))) ELSE 0

\* str.split(): the maximal runs of non-whitespace characters, in order
RECURSIVE Split(_)
Split(s) ==
    LET t == LStrip(s)
        n == WordLen(t)
    IN  IF Len(t) = 0 THEN << >>
        ELSE <<SubSeq(t, 1, n)>> \o Split(SubSeq(t, n + 1, Len(t)))

\* int(digits)
RECURSIVE ParseInt(_)
ParseInt(s) ==
    IF Len(s) = 0 THEN 0
    ELSE 10 * ParseInt(SubSeq(s, 1, Len(s) - 1)) + DigitValue[Char(s, Len(s))]

\* str(n) for an integer n >= 0
RECURSIVE IntToStr(_)
IntToStr(n) ==
    IF n < 10 THEN Char(Digits, n + 1)
    ELSE IntToStr(n \div 10) \o Char(Digits, (n % 10) + 1)

----------------------------------------------------------------------------
(* pandas DataFrame: its column names, their dtypes and its rows in order.  *)
(* A row is a function from the column names to values.                     *)

Frame(columns, dtypes, rows) == [columns |-> columns, dtypes |-> dtypes, rows |-> rows]

\* DataFrame.head(n) for n >= 0
Head_(df, n) == [df EXCEPT !.rows = SubSeq(df.rows, 1, Min(n, Len(df.rows)))]

----------------------------------------------------------------------------
(* get_sample_database: five tables of randomly drawn rows.  The number of *)
(* rows of a table is the source's, capped at RowCap; a random draw of the *)
(* source is a value derived from the row number and the seed.             *)

RowCap == 12

Seeds == {1, 2}

CustomersRows == 50

ProductsRows == 100

OrdersRows == 200

OrderItemsRows == 400

SuppliersRows == 10

TableNames == <<"customers", "products", "orders", "order_items", "suppliers">>

TableSize(name) ==
    CASE name = "customers" -> CustomersRows
      [] name = "products" -> ProductsRows
      [] name = "orders" -> OrdersRows
      [] name = "order_items" -> OrderItemsRows
      [] name = "suppliers" -> SuppliersRows

TableColumns(name) ==
    CASE name = "customers" ->
           <<"customer_id", "first_name", "last_name", "email", "phone", "city",
             "state", "registration_date", "status">>
      [] name = "products" ->
           <<"product_id", "product_name", "category", "price", "stock_quantity",
             "supplier_id", "created_date">>
      [] name = "orders" ->
           <<"order_id", "customer_id", "order_date", "total_amount", "status",
             "shipping_address", "payment_method">>
      [] name = "order_items" ->
           <<"order_item_id", "order_id", "product_id", "quantity", "unit_price">>
      [] name = "suppliers" ->
           <<"supplier_id", "company_name", "contact_name", "phone", "email", "country">>

\* The dtype pandas infers for a column of the sample database.
ColumnDtype(col) ==
    CASE col \in {"customer_id", "product_id", "order_id", "order_item_id", "supplier_id",
                  "stock_quantity", "quantity"} -> "int64"
      [] col \in {"price", "total_amount", "unit_price"} -> "float64"
      [] col \in {"registration_date", "created_date", "order_date"} -> "datetime64[ns]"
      [] OTHER -> "object"

SampleRow(name, i, seed) ==
    [c \in Range(TableColumns(name)) |->
        IF c = TableColumns(name)[1] THEN i ELSE (i * seed) % 3]

SampleTable(name, seed) ==
    Frame(TableColumns(name),
          [k \in 1..Len(TableColumns(name)) |-> ColumnDtype(TableColumns(name)[k])],
          [i \in 1..Min(TableSize(name), RowCap) |-> SampleRow(name, i, seed)])

get_sample_database(seed) == [t \in Range(TableNames) |-> SampleTable(t, seed)]

----------------------------------------------------------------------------
(* QueryExecutor: the result dictionaries.  A key the source leaves out is  *)
(* None here.                                                               *)

Failure(message) ==
    [success |-> FALSE, error |-> Some(message), result |-> None,
     rows_affected |-> None, note |-> None]

Success(df, note) ==
    [success |-> TRUE, error |-> None, result |-> Some(df),
     rows_affected |-> Some(Len(df.rows)), note |-> note]

\* re.search(r'LIMIT\s+(\d+)', query, re.IGNORECASE): group 1 of the leftmost
\* match, or None
RECURSIVE LimitMatch(_)
LimitMatch(query) ==
    IF Len(query) < 5 THEN None
    ELSE LET rest == SubSeq(query, 6, Len(query))
             gap == SpaceLen(rest)
             tail == SubSeq(rest, gap + 1, Len(rest))
         IN  IF /\ StrUpper(SubSeq(query, 1, 5)) = "LIMIT"
                /\ gap >= 1
                /\ DigitLen(tail) >= 1
             THEN Some(SubSeq(tail, 1, DigitLen(tail)))
             ELSE LimitMatch(SubSeq(query, 2, Len(query)))

\* The index of the first token equal to FROM in any case, or 0 (the source's -1).
FromIndex(parts) ==
    IF \E i \in 1..Len(parts) : StrUpper(parts[i]) = "FROM"
    THEN CHOOSE i \in 1..Len(parts) :
            /\ StrUpper(parts[i]) = "FROM"
            /\ \A j \in 1..(i - 1) : StrUpper(parts[j]) # "FROM"
    ELSE 0

DefaultRows == 10

\* The rows execute_select returns for a query on table df.
SelectRows(df, query) ==
    LET query_upper == StrUpper(query)
        limit_match == IF Contains(query_upper, "LIMIT") THEN LimitMatch(query) ELSE None
        limited == IF limit_match # None THEN Head_(df, ParseInt(limit_match[1])) ELSE df
    IN  IF Len(limited.rows) > DefaultRows /\ ~Contains(query_upper, "LIMIT")
        THEN Success(Head_(limited, DefaultRows),
                     Some("Showing first 10 rows of "
                          \o IntToStr(Len(Head_(limited, DefaultRows).rows))
                          \o " total rows"))
        ELSE Success(limited,
                     Some("Returned " \o IntToStr(Len(limited.rows)) \o " rows"))

\* Mutant: a table that is not in the database is looked up with dict.get and
\* its None is returned as the result of a successful query.
execute_select_unchecked(db, query) ==
    LET parts == Split(query)
        from_index == FromIndex(parts)
        table_name == RemoveChar(RemoveChar(parts[from_index + 1], ","), ";")
    IN  IF Contains(StrUpper(query), "FROM") /\ from_index # 0 /\ from_index + 1 <= Len(parts)
        THEN IF table_name \in DOMAIN db
             THEN SelectRows(db[table_name], query)
             ELSE [success |-> TRUE, error |-> None, result |-> None,
                   rows_affected |-> Some(0), note |-> None]
        ELSE Failure("Could not parse query")

\* QueryExecutor.execute_select
execute_select(db, query) ==
    LET query_upper == StrUpper(query)
        parts == Split(query)
        from_index == FromIndex(parts)
        table_name == RemoveChar(RemoveChar(parts[from_index + 1], ","), ";")
    IN  IF Contains(query_upper, "FROM") /\ from_index # 0 /\ from_index + 1 <= Len(parts)
        THEN IF table_name \in DOMAIN db
             THEN SelectRows(db[table_name], query)
             ELSE Failure("Table '" \o table_name \o "' not found")
        ELSE Failure("Could not parse query")

\* QueryExecutor.show_tables
show_tables(db) ==
    LET names == SelectSeq(TableNames, LAMBDA t : t \in DOMAIN db)
    IN  [success |-> TRUE, error |-> None,
         result |-> Some(Frame(<<"Table", "Rows", "Columns">>,
                               <<"object", "int64", "int64">>,
                               [i \in 1..Len(names) |->
                                  [Table |-> names[i],
                                   Rows |-> Len(db[names[i]].rows),
                                   Columns |-> Len(db[names[i]].columns)]])),
         rows_affected |-> Some(Len(names)), note |-> None]

\* QueryExecutor.describe_table
describe_table(db, query) ==
    LET parts == Split(query)
        table_name == RemoveChar(parts[2], ";")
        df == db[table_name]
        desc_df == Frame(<<"Column", "Type", "Null", "Key", "Default", "Extra">>,
                         <<"object", "object", "object", "object", "object", "object">>,
                         [i \in 1..Len(df.columns) |->
                            [Column |-> df.columns[i], Type |-> df.dtypes[i],
                             Null |-> "YES", Key |-> "", Default |-> None, Extra |-> ""]])
    IN  IF Len(parts) >= 2
        THEN IF table_name \in DOMAIN db
             THEN [success |-> TRUE, error |-> None, result |-> Some(desc_df),
                   rows_affected |-> Some(Len(desc_df.rows)), note |-> None]
             ELSE Failure("Table '" \o table_name \o "' not found")
        ELSE Failure("Invalid DESCRIBE syntax")

\* QueryExecutor.execute_query.  No operation of the three handlers raises on
\* a str query, so the except branch of the source is not taken.
execute_query(db, query) ==
    LET query_clean == RStripChar(Strip(query), ";")
        upper == StrUpper(query_clean)
    IN  IF StartsWith(upper, "SELECT") THEN execute_select(db, query_clean)
        ELSE IF StartsWith(upper, "SHOW TABLES") THEN show_tables(db)
        ELSE IF StartsWith(upper, "DESCRIBE") \/ StartsWith(upper, "DESC")
             THEN describe_table(db, query_clean)
        ELSE Failure("Only SELECT, SHOW TABLES, and DESCRIBE queries are supported in this demo")

----------------------------------------------------------------------------
(* The SQL Query Editor page.  One action is one rerun of main(): every     *)
(* rerun runs show_query_editor (which creates the session state when it is *)
(* missing), then the handler of the widget that triggered it.             *)
(* An entry's timestamp (datetime.now()) is not modelled.                   *)

MaxHistory == 2

MaxFavorites == 2

HistoryShown == 10

\* get_sample_queries
SampleQueries ==
    [Beginner |->
       <<"SELECT * FROM customers LIMIT 10;",
         "SELECT first_name, last_name FROM customers WHERE city = 'New York';",
         "SELECT COUNT(*) FROM products;",
         "SELECT * FROM orders WHERE status = 'Delivered';">>,
     Intermediate |->
       <<"SELECT c.first_name, c.last_name, COUNT(o.order_id) as order_count\nFROM customers c\nLEFT JOIN orders o ON c.customer_id = o.customer_id\nGROUP BY c.customer_id, c.first_name, c.last_name;",
         "SELECT p.category, AVG(p.price) as avg_price\nFROM products p\nWHERE p.stock_quantity > 0\nGROUP BY p.category\nHAVING AVG(p.price) > 50;",
         "SELECT o.order_id, o.order_date, SUM(oi.quantity * oi.unit_price) as calculated_total\nFROM orders o\nJOIN order_items oi ON o.order_id = oi.order_id\nGROUP BY o.order_id, o.order_date;">>,
     Advanced |->
       <<"WITH customer_stats AS (\n    SELECT \n        c.customer_id,\n        c.first_name,\n        c.last_name,\n        COUNT(o.order_id) as total_orders,\n        SUM(o.total_amount) as total_spent\n    FROM customers c\n    LEFT JOIN orders o ON c.customer_id = o.customer_id\n    GROUP BY c.customer_id, c.first_name, c.last_name\n)\nSELECT \n    first_name,\n    last_name,\n    total_orders,\n    total_spent,\n    CASE \n        WHEN total_spent > 500 THEN 'Gold'\n        WHEN total_spent > 200 THEN 'Silver'\n        ELSE 'Bronze'\n    END as customer_tier\nFROM customer_stats\nORDER BY total_spent DESC;",
         "SELECT \n    p.product_name,\n    p.category,\n    p.price,\n    AVG(p.price) OVER (PARTITION BY p.category) as category_avg_price,\n    p.price - AVG(p.price) OVER (PARTITION BY p.category) as price_difference\nFROM products p\nORDER BY p.category, p.price DESC;">>]

\* The Load Query buttons of the sidebar that the user presses: the
\* Difficulty chosen and the position of the query.
SamplesTried == {<<"Beginner", 1>>}

\* What the user types into the text area.
TypedQueries == {"   ", "SELECT * FROM customers LIMIT 3;", "DROP TABLE customers"}

\* Mutant: the comparison looks into the entry and compares the query texts.
StrEqualsEntryByText(query, entry) == entry.query = query

\* A str compared with a history entry (a dict): == is False for a str and a dict.
StrEqualsEntry(query, entry) == FALSE

\* query in st.session_state.query_history
InHistory(query, history) ==
    \E i \in 1..Len(history) : StrEqualsEntry(query, history[i])

\* get_sample_database draws its random rows only when it is called.
SeedsDrawn == IF database = None THEN Seeds ELSE {1}

\* Mutant: the database is generated again on every rerun.
SessionDatabaseUnguarded(seed) == Some(get_sample_database(seed))

\* show_query_editor, lines 521-525: the session state after the check
SessionDatabase(seed) ==
    IF database = None THEN Some(get_sample_database(seed)) ELSE database

\* Mutant: the history is created again on every rerun.
SessionHistoryReset == Some(<< >>)

SessionHistory == IF database = None THEN Some(<< >>) ELSE query_history

SessionFavorites == IF database = None THEN Some(<< >>) ELSE favorites

\* self.database after execute_query: execute_select works on a copy of the
\* table (df.head returns a new frame), show_tables and describe_table only read.
DatabaseAfterQuery(db, query) == db

\* show_main_editor, lines 566-578: the history after the Execute branch
HistoryAfterExecute(history, db, query) ==
    IF Strip(query) # "" /\ ~InHistory(query, history)
    THEN Append(history, [query |-> query, success |-> execute_query(db, query).success])
    ELSE history

\* show_main_editor, lines 584-590: the favourites after the Save branch
FavoritesAfterSave(favs, query) ==
    IF Strip(query) # ""
    THEN Append(favs, [query |-> query, name |-> "Query " \o IntToStr(Len(favs) + 1)])
    ELSE favs

\* Mutant: list.pop() without the index removes the last entry.
PopLast(list, i) == SubSeq(list, 1, Len(list) - 1)

\* list.pop(i) for a 0-based index i of the list
Pop(list, i) == SubSeq(list, 1, i) \o SubSeq(list, i + 2, Len(list))

\* show_query_assistant, line 749: reversed(query_history[-10:])
ShownHistory(history) ==
    LET n == Min(Len(history), HistoryShown)
    IN  [k \in 1..n |-> history[Len(history) + 1 - k]]

\* The first render of the page in a session.
OpenPage ==
    /\ database = None
    /\ \E seed \in SeedsDrawn : database' = SessionDatabase(seed)
    /\ query_history' = SessionHistory
    /\ favorites' = SessionFavorites
    /\ pressed' = "none"
    /\ UNCHANGED <<selected_query, editor_text, simVars>>

\* The user edits the text area; the rerun presses no button.
TypeQuery ==
    /\ database # None
    /\ \E q \in TypedQueries : editor_text' = q
    /\ \E seed \in SeedsDrawn : database' = SessionDatabase(seed)
    /\ query_history' = SessionHistory
    /\ favorites' = SessionFavorites
    /\ pressed' = "none"
    /\ UNCHANGED <<selected_query, simVars>>

\* The user presses Execute Query.
Execute ==
    /\ database # None
    /\ Len(query_history[1]) < MaxHistory
    /\ \E seed \in SeedsDrawn :
          database' = IF Strip(editor_text) # ""
                      THEN Some(DatabaseAfterQuery(SessionDatabase(seed)[1], editor_text))
                      ELSE SessionDatabase(seed)
    /\ query_history' =
          Some(HistoryAfterExecute(SessionHistory[1], database'[1], editor_text))
    /\ favorites' = SessionFavorites
    /\ pressed' = "execute"
    /\ UNCHANGED <<selected_query, editor_text, simVars>>

\* The user presses Analyze Query: show_query_analysis only displays.
Analyze ==
    /\ database # None
    /\ \E seed \in SeedsDrawn : database' = SessionDatabase(seed)
    /\ query_history' = SessionHistory
    /\ favorites' = SessionFavorites
    /\ pressed' = "analyze"
    /\ UNCHANGED <<selected_query, editor_text, simVars>>

\* The user presses Save Query.
Save ==
    /\ database # None
    /\ Len(favorites[1]) < MaxFavorites
    /\ \E seed \in SeedsDrawn : database' = SessionDatabase(seed)
    /\ query_history' = SessionHistory
    /\ favorites' = Some(FavoritesAfterSave(SessionFavorites[1], editor_text))
    /\ pressed' = "save"
    /\ UNCHANGED <<selected_query, editor_text, simVars>>

\* The user presses the delete button of the favourite at index i (0-based,
\* key del_fav_i); st.rerun() then renders the page again with no button
\* pressed.
DeleteFavoriteAt(i) ==
    /\ database # None
    /\ i < Len(favorites[1])
    /\ favorites' = Some(Pop(SessionFavorites[1], i))
    /\ \E seed \in SeedsDrawn : database' = SessionDatabase(seed)
    /\ query_history' = SessionHistory
    /\ pressed' = "none"
    /\ UNCHANGED <<selected_query, editor_text, simVars>>

DeleteFavorite ==
    /\ database # None
    /\ \E i \in 0..(Len(favorites[1]) - 1) : DeleteFavoriteAt(i)

\* The user presses a Load Query button of the sidebar.
LoadSample ==
    /\ database # None
    /\ \E sample \in SamplesTried :
          selected_query' = Some(SampleQueries[sample[1]][sample[2]])
    /\ \E seed \in SeedsDrawn : database' = SessionDatabase(seed)
    /\ query_history' = SessionHistory
    /\ favorites' = SessionFavorites
    /\ pressed' = "none"
    /\ UNCHANGED <<editor_text, simVars>>

\* The user presses the button of a Query History entry.
LoadHistory ==
    /\ database # None
    /\ \E k \in 1..Len(ShownHistory(query_history[1])) :
          selected_query' = Some(ShownHistory(query_history[1])[k].query)
    /\ \E seed \in SeedsDrawn : database' = SessionDatabase(seed)
    /\ query_history' = SessionHistory
    /\ favorites' = SessionFavorites
    /\ pressed' = "none"
    /\ UNCHANGED <<editor_text, simVars>>

\* The user presses the name button of a favourite.
LoadFavorite ==
    /\ database # None
    /\ \E i \in 1..Len(favorites[1]) : selected_query' = Some(favorites[1][i].query)
    /\ \E seed \in SeedsDrawn : database' = SessionDatabase(seed)
    /\ query_history' = SessionHistory
    /\ favorites' = SessionFavorites
    /\ pressed' = "none"
    /\ UNCHANGED <<editor_text, simVars>>

\* The user picks a table in the Data Explorer tab: show_data_explorer only
\* reads the table (len, columns, head, describe).
ExploreTable ==
    /\ database # None
    /\ \E seed \in SeedsDrawn : database' = SessionDatabase(seed)
    /\ query_history' = SessionHistory
    /\ favorites' = SessionFavorites
    /\ pressed' = "none"
    /\ UNCHANGED <<selected_query, editor_text, simVars>>

SimIdle == topic = "none" /\ params = None /\ pc = "idle" /\ out = None

Init ==
    /\ database = None
    /\ query_history = None
    /\ favorites = None
    /\ selected_query = None
    /\ editor_text = ""
    /\ pressed = "none"
    /\ SimIdle

Next ==
    \/ OpenPage
    \/ TypeQuery
    \/ Execute
    \/ Analyze
    \/ Save
    \/ DeleteFavorite
    \/ LoadSample
    \/ LoadHistory
    \/ LoadFavorite
    \/ ExploreTable

Spec == Init /\ [][Next]_vars

----------------------------------------------------------------------------
(* QueryExecutor.execute_query as a function of the query text: the query   *)
(* is drawn in the initial state, on a session whose first render is done.  *)

ExecQueries ==
    {"SELECT * FROM customers LIMIT 10;",
     "SELECT first_name, last_name FROM customers WHERE city = 'New York';",
     "SELECT COUNT(*) FROM products;",
     "SELECT * FROM orders WHERE status = 'Delivered';",
     "SELECT * FROM customers",
     "select * from suppliers",
     "SELECT * FROM customers LIMIT 3",
     "SELECT * FROM customers limit 0",
     "SELECT * FROM customers LIMIT 20",
     "SELECT * FROM customers LIMIT x",
     "SELECT unlimited FROM customers",
     "SELECT bogus FROM customers",
     "SELECT customer_id, bogus FROM customers LIMIT 2",
     "SELECT email FROM suppliers;",
     "SELECT * FROM bogus",
     "SELECT * FROM CUSTOMERS",
     "SELECT * FROM",
     "SELECT 1",
     "SELECT fromage",
     "SELECT * FROM customers, orders",
     "SELECT *\nFROM orders\nLIMIT   2;",
     "  SELECT * FROM products  ;",
     "SELECTED",
     "SHOW TABLES;",
     "show tables",
     "SHOW DATABASES",
     "DESCRIBE customers;",
     "DESC suppliers",
     "describe products",
     "DESCRIBE bogus",
     "DESCRIBE",
     "INSERT INTO customers VALUES (1)",
     "DROP TABLE customers",
     "UPDATE products SET price = 0",
     "",
     "   ",
     ";"}

InitExec ==
    /\ \E seed \in Seeds : database = Some(get_sample_database(seed))
    /\ query_history = Some(<< >>)
    /\ favorites = Some(<< >>)
    /\ selected_query = None
    /\ editor_text = ""
    /\ pressed = "none"
    /\ topic = "execute_query"
    /\ params \in [query : ExecQueries]
    /\ pc = "ready"
    /\ out = None

\* executor = QueryExecutor(st.session_state.database); executor.execute_query(query)
RunExecuteQuery ==
    /\ topic = "execute_query"
    /\ pc = "ready"
    /\ out' = Some(execute_query(database[1], params.query))
    /\ pc' = "done"
    /\ UNCHANGED <<sessionVars, topic, params>>

NextExec == RunExecuteQuery

ExecSpec == InitExec /\ [][NextExec]_vars

----------------------------------------------------------------------------
(* The Basic Query page: the employees sample table and the pandas          *)
(* operations its simulators use.  A table is a sequence of rows, a row is  *)
(* a record indexed by column name.                                         *)

SampleColumns ==
    <<"id", "name", "email", "department", "salary", "hire_date", "age", "status">>

\* The columns whose pandas dtype is int64; the others are object (str).
IsIntColumn(col) == col \in {"id", "salary", "age"}

Employee(id, name, email, department, salary, hire_date, age, status) ==
    [id |-> id, name |-> name, email |-> email, department |-> department,
     salary |-> salary, hire_date |-> hire_date, age |-> age, status |-> status]

get_sample_data ==
    << Employee(1, "John Doe", "john@company.com", "IT", 75000, "2020-01-15", 30, "Active"),
       Employee(2, "Jane Smith", "jane@company.com", "HR", 65000, "2019-03-20", 28, "Active"),
       Employee(3, "Bob Johnson", "bob@company.com", "IT", 80000, "2021-07-10", 35, "Active"),
       Employee(4, "Alice Brown", "alice@company.com", "Finance", 70000, "2018-11-05", 32, "Inactive"),
       Employee(5, "Charlie Wilson", "charlie@company.com", "IT", 72000, "2020-09-12", 29, "Active"),
       Employee(6, "Diana Prince", "diana@company.com", "Marketing", 68000, "2021-02-28", 26, "Active"),
       Employee(7, "Tom Anderson", "tom@company.com", "Finance", 85000, "2019-08-14", 40, "Active"),
       Employee(8, "Sarah Connor", "sarah@company.com", "HR", 62000, "2022-01-03", 25, "Active") >>

\* A DataFrame of the page: its column labels and its rows in index order.
Table(columns, rows) == [columns |-> columns, rows |-> rows]

\* Series.astype(str)
AsStr(col, v) == IF IsIntColumn(col) THEN IntToStr(v) ELSE v

\* The characters of the sample data in code point order.
CodePoints == " (-.0123456789@ABCDEFGHIJKLMNOPQRSTUVWXYZabcdefghijklmnopqrstuvwxyz"

Ord == [c \in {Char(CodePoints, i) : i \in 1..Len(CodePoints)} |-> IndexIn(CodePoints, c)]

\* str < str: lexicographic by code point.
RECURSIVE StrLess(_, _)
StrLess(a, b) ==
    IF b = "" THEN FALSE
    ELSE IF a = "" THEN TRUE
    ELSE IF Char(a, 1) = Char(b, 1)
         THEN StrLess(SubSeq(a, 2, Len(a)), SubSeq(b, 2, Len(b)))
         ELSE Ord[Char(a, 1)] < Ord[Char(b, 1)]

\* The order of two values of a column.
ValueLess(col, a, b) == IF IsIntColumn(col) THEN a < b ELSE StrLess(a, b)

\* r1 sorts strictly before r2 on the keys by[k..], each in its direction.
RECURSIVE RowBefore(_, _, _, _, _)
RowBefore(r1, r2, by, ascending, k) ==
    IF k > Len(by) THEN FALSE
    ELSE LET col == by[k]
             lt == IF ascending[k] THEN ValueLess(col, r1[col], r2[col])
                                   ELSE ValueLess(col, r2[col], r1[col])
         IN  IF lt THEN TRUE
             ELSE IF r1[col] = r2[col] THEN RowBefore(r1, r2, by, ascending, k + 1)
             ELSE FALSE

\* For each row, how many rows sort strictly before it.
SortRank(rows, by, ascending) ==
    [i \in 1..Len(rows) |->
        Cardinality({j \in 1..Len(rows) : RowBefore(rows[j], rows[i], by, ascending, 1)})]

\* Every arrangement of the indices S in which the rank never decreases.
RECURSIVE Arrangements(_, _)
Arrangements(S, rank) ==
    IF S = {} THEN {<< >>}
    ELSE LET m == CHOOSE r \in {rank[i] : i \in S} : \A i \in S : r <= rank[i]
         IN  UNION {{<<i>> \o t : t \in Arrangements(S \ {i}, rank)} :
                       i \in {j \in S : rank[j] = m}}

\* The arrangement in which rows of equal rank keep their index order.
RECURSIVE StableArrangement(_, _)
StableArrangement(S, rank) ==
    IF S = {} THEN << >>
    ELSE LET i == CHOOSE j \in S :
                     \A k \in S : rank[j] < rank[k] \/ (rank[j] = rank[k] /\ j <= k)
         IN  <<i>> \o StableArrangement(S \ {i}, rank)

\* DataFrame.sort_values(by=..., ascending=...), kind left at its default
\* 'quicksort'.  With one key pandas argsorts that column with quicksort,
\* which it documents as not stable: the order of rows with equal keys is any.
\* With several keys pandas uses its lexsort indexer, which is stable.
\* The result is the set of tables the call can return.
sort_values(rows, by, ascending) ==
    LET rank == SortRank(rows, by, ascending)
        orders == IF Len(by) = 1
                  THEN Arrangements(1..Len(rows), rank)
                  ELSE {StableArrangement(1..Len(rows), rank)}
    IN  {[k \in 1..Len(rows) |-> rows[o[k]]] : o \in orders}

\* Mutant: the slice stops at position b - a.
iloc_short(rows, a, b) == SubSeq(rows, a + 1, Min(b - a, Len(rows)))

\* DataFrame.iloc[a:b] for 0 <= a, 0 <= b: the rows at positions a..b-1 that exist.
iloc(rows, a, b) == SubSeq(rows, a + 1, Min(b, Len(rows)))

\* DataFrame.head(n) for n >= 0
head(rows, n) == SubSeq(rows, 1, Min(n, Len(rows)))

\* DataFrame[columns]: the projection of every row.
Project(rows, columns) ==
    [k \in 1..Len(rows) |-> [c \in Range(columns) |-> rows[k][c]]]

\* The rows, in order, whose index is in keep.
RECURSIVE SelectRowsAt(_, _, _)
SelectRowsAt(rows, keep, k) ==
    IF k > Len(rows) THEN << >>
    ELSE (IF k \in keep THEN <<rows[k]>> ELSE << >>) \o SelectRowsAt(rows, keep, k + 1)

\* df[mask]
Mask(rows, keep) == SelectRowsAt(rows, keep, 1)

\* re.compile(pattern) raises re.error.  Of the characters drawn for a filter
\* value the only regular-expression operators are "." and "(", and a "("
\* that is never closed is an unterminated subpattern.
RegexRaises(pattern) == Contains(pattern, "(") /\ ~Contains(pattern, ")")

\* The pattern matches the text at offset off, ignoring case; "." matches
\* any character.
MatchesAt(pattern, text, off) ==
    \A i \in 1..Len(pattern) :
        \/ Char(pattern, i) = "."
        \/ LowerChar(Char(pattern, i)) = LowerChar(Char(text, off + i - 1))

\* Series.str.contains(pattern, case=False): re.search on every value.
str_contains(text, pattern) ==
    \E off \in 1..(Len(text) - Len(pattern) + 1) : MatchesAt(pattern, text, off)

\* sep.join(parts)
RECURSIVE Join(_, _)
Join(parts, sep) ==
    IF parts = << >> THEN ""
    ELSE IF Len(parts) = 1 THEN parts[1]
    ELSE parts[1] \o sep \o Join(Tail(parts), sep)

\* What a simulator of the page puts on the screen: st.error's message, the
\* generated query of st.code and the table of st.dataframe.
Display(error, query, result) == [error |-> error, query |-> query, result |-> result]

\* create_query_builder: the WHERE and value test of both the query text and
\* the simulation.
UsesWhere(p) == p.use_where /\ p.where_value # ""

\* create_query_builder: query_parts joined.
BuilderQuery(p) ==
    LET select == IF p.select_all THEN "SELECT *"
                  ELSE "SELECT " \o Join(p.selected_columns, ", ")
        where == IF ~UsesWhere(p) THEN << >>
                 ELSE IF p.where_operator = "LIKE"
                 THEN <<"WHERE " \o p.where_column \o " LIKE '%" \o p.where_value \o "%'">>
                 ELSE <<"WHERE " \o p.where_column \o " " \o p.where_operator
                          \o " '" \o p.where_value \o "'">>
        order == IF p.use_order
                 THEN <<"ORDER BY " \o p.order_column \o " " \o p.order_direction>>
                 ELSE << >>
        limit == IF p.use_limit THEN <<"LIMIT " \o IntToStr(p.limit_value)>> ELSE << >>
    IN  Join(<<select, "FROM employees">> \o where \o order \o limit, "\n") \o ";"

\* create_query_builder: "Apply WHERE filter (simplified)".  Only '=' and
\* 'LIKE' have a branch; every other operator leaves the table as it is.
BuilderFilter(rows, p) ==
    IF ~UsesWhere(p) THEN rows
    ELSE IF p.where_operator = "="
    THEN Mask(rows, {k \in 1..Len(rows) :
                        AsStr(p.where_column, rows[k][p.where_column]) = p.where_value})
    ELSE IF p.where_operator = "LIKE"
    THEN Mask(rows, {k \in 1..Len(rows) :
                        str_contains(AsStr(p.where_column, rows[k][p.where_column]),
                                     p.where_value)})
    ELSE rows

\* create_query_builder after the Build Query button: the set of displays the
\* handler can produce.
create_query_builder(p) ==
    IF ~p.select_all /\ p.selected_columns = << >>
    THEN {Display(Some("Please select at least one column or use SELECT *"), None, None)}
    ELSE IF UsesWhere(p) /\ p.where_operator = "LIKE" /\ RegexRaises(p.where_value)
    THEN {Display(Some("Error executing query: missing ), unterminated subpattern at position 0"),
                  Some(BuilderQuery(p)), None)}
    ELSE LET filtered == BuilderFilter(get_sample_data, p)
             sorted == IF p.use_order
                       THEN sort_values(filtered, <<p.order_column>>,
                                        <<p.order_direction = "ASC">>)
                       ELSE {filtered}
             limited(rows) == IF p.use_limit THEN head(rows, p.limit_value) ELSE rows
             selected(rows) == IF ~p.select_all
                               THEN Table(p.selected_columns, Project(rows, p.selected_columns))
                               ELSE Table(SampleColumns, rows)
         IN  {Display(None, Some(BuilderQuery(p)), Some(selected(limited(rows)))) :
                 rows \in sorted}

\* create_limit_interactive_section: max_pages
max_pages(total_records, page_size) == (total_records + page_size - 1) \div page_size

\* create_limit_interactive_section for one choice of the three select boxes:
\* the set of displays the rerun can produce.
create_limit_interactive_section(page_size, current_page, sort_column) ==
    LET offset == (current_page - 1) * page_size
        query == "SELECT * FROM employees \nORDER BY " \o sort_column \o "\nLIMIT "
                    \o IntToStr(page_size) \o " OFFSET " \o IntToStr(offset) \o ";"
    IN  {Display(None, Some(query),
                 Some(Table(SampleColumns, iloc(sorted_data, offset, offset + page_size)))) :
            sorted_data \in sort_values(get_sample_data, <<sort_column>>, <<TRUE>>)}

\* create_order_by_interactive_section for one choice of its widgets: the set
\* of displays the rerun can produce.
create_order_by_interactive_section(p) ==
    LET dir(asc) == IF asc THEN "ASC" ELSE "DESC"
        query == IF p.enable_secondary
                 THEN "SELECT * FROM employees \nORDER BY " \o p.primary_column \o " "
                         \o dir(p.primary_asc) \o ", \n         " \o p.secondary_column
                         \o " " \o dir(p.secondary_asc) \o ";"
                 ELSE "SELECT * FROM employees ORDER BY " \o p.primary_column \o " "
                         \o dir(p.primary_asc) \o ";"
        results == IF p.enable_secondary
                   THEN sort_values(get_sample_data,
                                    <<p.primary_column, p.secondary_column>>,
                                    <<p.primary_asc, p.secondary_asc>>)
                   ELSE sort_values(get_sample_data, <<p.primary_column>>, <<p.primary_asc>>)
    IN  {Display(None, Some(query), Some(Table(SampleColumns, rows))) : rows \in results}

\* kwargs.get(key, default), a missing key being None in the record.
Get(kwargs, key, default) == IF kwargs[key] = None THEN default ELSE kwargs[key][1]

\* generate_where_example(data, filter_type): the query text and the result
\* table of the example; the third member of the returned tuple, the
\* explanation, is a fixed text per example.  notna() holds for a status
\* that is a str.
generate_where_example(data, filter_type) ==
    LET rows == data.rows
        Where(query, Test(_)) ==
            [query |-> query,
             result |-> Table(data.columns,
                              Mask(rows, {k \in 1..Len(rows) : Test(rows[k])}))]
    IN  IF filter_type = "Single condition (department = 'IT')"
        THEN Where("SELECT * FROM employees WHERE department = 'IT';",
                   LAMBDA r : r.department = "IT")
        ELSE IF filter_type = "Numeric comparison (salary > 70000)"
        THEN Where("SELECT * FROM employees WHERE salary > 70000;",
                   LAMBDA r : r.salary > 70000)
        ELSE IF filter_type = "Multiple conditions with AND"
        THEN Where("SELECT * FROM employees WHERE department = 'IT' AND salary > 70000;",
                   LAMBDA r : r.department = "IT" /\ r.salary > 70000)
        ELSE IF filter_type = "Multiple conditions with OR"
        THEN Where("SELECT * FROM employees WHERE department = 'IT' OR department = 'HR';",
                   LAMBDA r : r.department \in {"IT", "HR"})
        ELSE IF filter_type = "Range filtering (BETWEEN)"
        THEN Where("SELECT * FROM employees WHERE salary BETWEEN 65000 AND 75000;",
                   LAMBDA r : r.salary >= 65000 /\ r.salary <= 75000)
        ELSE IF filter_type = "List matching (IN operator)"
        THEN Where("SELECT * FROM employees WHERE department IN ('IT', 'Finance', 'Marketing');",
                   LAMBDA r : r.department \in {"IT", "Finance", "Marketing"})
        ELSE IF filter_type = "Pattern matching (LIKE)"
        THEN Where("SELECT * FROM employees WHERE name LIKE 'J%';",
                   LAMBDA r : StartsWith(r.name, "J"))
        ELSE Where("SELECT * FROM employees WHERE status IS NOT NULL;",
                   LAMBDA r : r.status \in STRING)

\* Mutant: the salary_range condition leaves out the two bounds.
ConditionHoldsExclusive(condition, r) ==
    IF condition = Some("department_it") THEN r.department = "IT"
    ELSE IF condition = Some("salary_high") THEN r.salary > 70000
    ELSE IF condition = Some("salary_range") THEN r.salary > 65000 /\ r.salary < 75000
    ELSE IF condition = Some("name_starts_j") THEN StartsWith(r.name, "J")
    ELSE TRUE

\* create_query_result: the row test of a where_filter condition; a condition
\* that is none of the four keeps every row (the call falls through to the
\* final return data.copy()).
ConditionHolds(condition, r) ==
    IF condition = Some("department_it") THEN r.department = "IT"
    ELSE IF condition = Some("salary_high") THEN r.salary > 70000
    ELSE IF condition = Some("salary_range") THEN r.salary >= 65000 /\ r.salary <= 75000
    ELSE IF condition = Some("name_starts_j") THEN StartsWith(r.name, "J")
    ELSE TRUE

\* create_query_result(data, query_type, **kwargs): the set of tables the
\* call can return.
create_query_result(data, query_type, kwargs) ==
    LET rows == data.rows
        whole == {Table(data.columns, rows)}
    IN  IF query_type = "select_all" THEN whole
        ELSE IF query_type = "select_columns"
        THEN LET columns == Get(kwargs, "columns", <<"name", "department", "salary">>)
             IN  {Table(columns, Project(rows, columns))}
        ELSE IF query_type = "where_filter"
        THEN {Table(data.columns,
                    Mask(rows, {k \in 1..Len(rows) :
                                   ConditionHolds(kwargs["condition"], rows[k])}))}
        ELSE IF query_type = "order_by"
        THEN {Table(data.columns, sorted) :
                 sorted \in sort_values(rows, <<Get(kwargs, "column", "name")>>,
                                        <<Get(kwargs, "ascending", TRUE)>>)}
        ELSE IF query_type = "limit"
        THEN LET limit == Get(kwargs, "limit", 3)
                 offset == Get(kwargs, "offset", 0)
             IN  {Table(data.columns, iloc(rows, offset, offset + limit))}
        ELSE whole

----------------------------------------------------------------------------
(* The Basic Query simulators as a state machine: the widget values are     *)
(* drawn in the initial state and one action is the rerun that shows the    *)
(* result.                                                                  *)

\* The largest limit and offset passed to create_query_result.
MaxLimit == 4

MaxOffset == 9

\* The widget values of the query builder that are tried: the SELECT checkbox
\* and multiselect; WHERE unticked, or ticked with a filter column, every
\* operator of the menu and a value; ORDER BY unticked, or ticked with a
\* column and a direction; LIMIT unticked, or ticked with a number of rows.
BuilderParams ==
    LET select == {[select_all |-> TRUE, selected_columns |-> << >>],
                   [select_all |-> FALSE,
                    selected_columns |-> <<"name", "department", "salary">>],
                   [select_all |-> FALSE, selected_columns |-> << >>]}
        where == {[use_where |-> FALSE, where_column |-> "", where_operator |-> "",
                   where_value |-> ""]}
                 \cup [use_where : {TRUE},
                       where_column : {"department", "salary", "name"},
                       where_operator : {"=", "!=", ">", "<", ">=", "<=", "LIKE"},
                       where_value : {"", "IT", "it", "70000", ".", "("}]
        order == {[use_order |-> FALSE, order_column |-> "", order_direction |-> ""]}
                 \cup [use_order : {TRUE}, order_column : {"department", "salary"},
                       order_direction : {"ASC", "DESC"}]
        limit == {[use_limit |-> FALSE, limit_value |-> 0],
                  [use_limit |-> TRUE, limit_value |-> 3]}
    IN  {[select_all |-> s.select_all, selected_columns |-> s.selected_columns,
          use_where |-> w.use_where, where_column |-> w.where_column,
          where_operator |-> w.where_operator, where_value |-> w.where_value,
          use_order |-> o.use_order, order_column |-> o.order_column,
          order_direction |-> o.order_direction,
          use_limit |-> l.use_limit, limit_value |-> l.limit_value] :
            s \in select, w \in where, o \in order, l \in limit}

\* The select boxes of the pagination demo: Records per page and Sort by.
LimitDemoParams ==
    [page_size : {3, 5, 8, 10}, sort_column : {"id", "name", "salary", "hire_date"}]

\* The widgets of the ORDER BY demo.
SortColumns == {"name", "department", "salary", "age", "hire_date"}

OrderDemoParams ==
    {[primary_column |-> c, primary_asc |-> a, enable_secondary |-> FALSE,
      secondary_column |-> "", secondary_asc |-> TRUE] : c \in SortColumns, a \in BOOLEAN}
    \cup {p \in [primary_column : SortColumns, primary_asc : BOOLEAN,
                 enable_secondary : {TRUE}, secondary_column : SortColumns,
                 secondary_asc : BOOLEAN] : p.primary_column # p.secondary_column}

NoKwargs ==
    [columns |-> None, condition |-> None, column |-> None, ascending |-> None,
     limit |-> None, offset |-> None]

Optional(S) == {None} \cup {Some(x) : x \in S}

KwargsOf(query_type) ==
    IF query_type = "select_columns"
    THEN {[NoKwargs EXCEPT !.columns = c] : c \in Optional({<<"name">>})}
    ELSE IF query_type = "where_filter"
    THEN {[NoKwargs EXCEPT !.condition = c] :
             c \in Optional({"department_it", "salary_high", "salary_range",
                             "name_starts_j", "other"})}
    ELSE IF query_type = "order_by"
    THEN {[NoKwargs EXCEPT !.column = c, !.ascending = a] :
             c \in Optional(SortColumns), a \in Optional(BOOLEAN)}
    ELSE IF query_type = "limit"
    THEN {[NoKwargs EXCEPT !.limit = l, !.offset = o] :
             l \in Optional(1..MaxLimit), o \in Optional(0..MaxOffset)}
    ELSE {NoKwargs}

\* The calls of create_query_result: data is the first n rows of the sample
\* table, query_type one of the five types or another string.
QueryResultParams ==
    LET tables == {Table(SampleColumns, head(get_sample_data, n)) :
                      n \in 0..Len(get_sample_data)}
        query_types == {"select_all", "select_columns", "where_filter", "order_by",
                        "limit", "other"}
    IN  UNION {{[data |-> d, query_type |-> t, kwargs |-> k] :
                   d \in tables, k \in KwargsOf(t)} : t \in query_types}

SessionUnopened ==
    /\ database = None
    /\ query_history = None
    /\ favorites = None
    /\ selected_query = None
    /\ editor_text = ""
    /\ pressed = "none"

InitBasic ==
    /\ SessionUnopened
    /\ \/ topic = "limit_demo" /\ params \in LimitDemoParams
       \/ topic = "order_by_demo" /\ params \in OrderDemoParams
       \/ topic = "query_result" /\ params \in QueryResultParams
       \/ /\ topic = "where_example"
          /\ params \in [data : {Table(SampleColumns, head(get_sample_data, n)) :
                                    n \in 0..Len(get_sample_data)},
                          filter_type : {"Single condition (department = 'IT')",
                                         "Numeric comparison (salary > 70000)",
                                         "Multiple conditions with AND",
                                         "Multiple conditions with OR",
                                         "Range filtering (BETWEEN)",
                                         "List matching (IN operator)",
                                         "Pattern matching (LIKE)",
                                         "NULL value checking"}]
    /\ pc = "ready"
    /\ out = None

\* The user moves the Current page select box to the next page, from page 1
\* to the last; out collects what each rerun shows.
ShowPage ==
    /\ topic = "limit_demo"
    /\ pc = "ready"
    /\ LET shown == IF out = None THEN << >> ELSE out[1]
           current_page == Len(shown) + 1
       IN  /\ \E display \in create_limit_interactive_section(
                                 params.page_size, current_page, params.sort_column) :
                 out' = Some(Append(shown, display))
           /\ pc' = IF current_page = max_pages(Len(get_sample_data), params.page_size)
                    THEN "done" ELSE "ready"
    /\ UNCHANGED <<sessionVars, topic, params>>

\* A rerun of the ORDER BY demo with the chosen widget values.
ShowSorted ==
    /\ topic = "order_by_demo"
    /\ pc = "ready"
    /\ \E display \in create_order_by_interactive_section(params) : out' = Some(display)
    /\ pc' = "done"
    /\ UNCHANGED <<sessionVars, topic, params>>

\* A call of create_query_result.
RunQueryResult ==
    /\ topic = "query_result"
    /\ pc = "ready"
    /\ \E result \in create_query_result(params.data, params.query_type, params.kwargs) :
          out' = Some(result)
    /\ pc' = "done"
    /\ UNCHANGED <<sessionVars, topic, params>>

\* A rerun of the WHERE examples with the chosen example: the page passes
\* get_sample_data(), a call of the function any table of these columns.
ShowWhereExample ==
    /\ topic = "where_example"
    /\ pc = "ready"
    /\ out' = Some(generate_where_example(params.data, params.filter_type))
    /\ pc' = "done"
    /\ UNCHANGED <<sessionVars, topic, params>>

NextBasic ==
    \/ ShowPage
    \/ ShowSorted
    \/ RunQueryResult
    \/ ShowWhereExample

BasicSpec == InitBasic /\ [][NextBasic]_vars

InitBuilder ==
    /\ SessionUnopened
    /\ topic = "query_builder"
    /\ params \in BuilderParams
    /\ pc = "ready"
    /\ out = None

\* The user presses Build Query.
BuildQuery ==
    /\ topic = "query_builder"
    /\ pc = "ready"
    /\ \E display \in create_query_builder(params) : out' = Some(display)
    /\ pc' = "done"
    /\ UNCHANGED <<sessionVars, topic, params>>

NextBuilder == BuildQuery

BuilderSpec == InitBuilder /\ [][NextBuilder]_vars

----------------------------------------------------------------------------
(* The Aggregate Query page: GROUP BY and HAVING on the sales table.        *)
(* Amounts are kept in hundredths (sale_amount is round(..., 2)), so that   *)
(* DataFrame.round(2) is a rounding to an integer.  The float arithmetic of *)
(* pandas below the second decimal is not modelled.                         *)

\* A record of data['sales'], with the columns the two simulators read.
Sale(sale_id, product_category, region, sale_amount) ==
    [sale_id |-> sale_id, product_category |-> product_category,
     region |-> region, sale_amount |-> sale_amount]

\* The result of a calculate_* function: the message of st.error when the
\* except branch ran, and the DataFrame returned (pd.DataFrame() is the table
\* with no columns and no rows).  A row is the sequence of its values.
Calculated(error, columns, rows) == [error |-> error, columns |-> columns, rows |-> rows]

EmptyDataFrame(error) == Calculated(error, << >>, << >>)

\* Lexicographic order of two key tuples of strings.
RECURSIVE TupleLess(_, _)
TupleLess(a, b) ==
    IF a = << >> \/ b = << >> THEN FALSE
    ELSE IF a[1] = b[1] THEN TupleLess(Tail(a), Tail(b))
    ELSE StrLess(a[1], b[1])

\* groupby(...) sorts the group keys.
RECURSIVE SortedKeys(_)
SortedKeys(S) ==
    IF S = {} THEN << >>
    ELSE LET m == CHOOSE k \in S : \A o \in S \ {k} : TupleLess(k, o)
         IN  <<m>> \o SortedKeys(S \ {m})

\* The key tuple of a row for the grouping columns.
KeyOf(r, group_cols) == [k \in 1..Len(group_cols) |-> r[group_cols[k]]]

\* The rows of one group, in index order.
GroupRows(df, group_cols, key) ==
    Mask(df, {k \in 1..Len(df) : KeyOf(df[k], group_cols) = key})

RECURSIVE SumAmount(_)
SumAmount(rows) ==
    IF rows = << >> THEN 0 ELSE rows[1].sale_amount + SumAmount(Tail(rows))

\* round-half-to-even of num / den, as numpy's round() does.  (The amounts
\* drawn never put a mean exactly between two hundredths.)
RoundHalfEven(num, den) ==
    LET q == num \div den
        r == num % den
    IN  IF 2 * r < den THEN q
        ELSE IF 2 * r > den THEN q + 1
        ELSE IF q % 2 = 0 THEN q ELSE q + 1

\* One aggregate of one group after .round(2): 'count' of sale_id, or
\* 'sum' / 'mean' / 'min' / 'max' of sale_amount.
Aggregate(rows, f) ==
    LET amounts == {rows[k].sale_amount : k \in 1..Len(rows)}
    IN  IF f = "count" THEN Len(rows)
        ELSE IF f = "sum" THEN SumAmount(rows)
        ELSE IF f = "mean" THEN RoundHalfEven(SumAmount(rows), Len(rows))
        ELSE IF f = "min" THEN CHOOSE a \in amounts : \A b \in amounts : a <= b
        ELSE CHOOSE a \in amounts : \A b \in amounts : a >= b

\* calculate_group_by_result: agg_dict.  A value is a str ('count', 'sum') or
\* a list (['mean', ...]); keys holds the insertion order; raised is set when
\* .append is called on a str value (AttributeError).
EmptyAggDict == [keys |-> << >>, sale_id |-> None, sale_amount |-> None, raised |-> FALSE]

AggStr(f) == [list |-> FALSE, funcs |-> <<f>>]

AggList(fs) == [list |-> TRUE, funcs |-> fs]

\* agg_dict[key] = value
SetItem(d, key, value) ==
    [d EXCEPT ![key] = Some(value),
              !.keys = IF key \in Range(d.keys) THEN d.keys ELSE Append(d.keys, key)]

\* if 'sale_amount' not in agg_dict: agg_dict['sale_amount'] = [f]
\* else: agg_dict['sale_amount'].append(f)
AppendItem(d, f) ==
    IF d.sale_amount = None THEN SetItem(d, "sale_amount", AggList(<<f>>))
    ELSE IF d.sale_amount[1].list
    THEN [d EXCEPT !.sale_amount = Some(AggList(Append(d.sale_amount[1].funcs, f)))]
    ELSE [d EXCEPT !.raised = TRUE]

\* calculate_group_by_result: one turn of "for func in agg_funcs".
AddAggregate(d, func) ==
    IF d.raised THEN d
    ELSE IF Contains(func, "COUNT(*)") THEN SetItem(d, "sale_id", AggStr("count"))
    ELSE IF Contains(func, "SUM(sale_amount)") THEN SetItem(d, "sale_amount", AggStr("sum"))
    ELSE IF Contains(func, "AVG(sale_amount)") THEN AppendItem(d, "mean")
    ELSE IF Contains(func, "MIN(sale_amount)") THEN AppendItem(d, "min")
    ELSE IF Contains(func, "MAX(sale_amount)") THEN AppendItem(d, "max")
    ELSE d

RECURSIVE AggDict(_, _)
AggDict(agg_funcs, d) ==
    IF agg_funcs = << >> THEN d
    ELSE AggDict(Tail(agg_funcs), AddAggregate(d, Head(agg_funcs)))

\* The columns of groupby(...).agg(agg_dict): pairs (column, function) in the
\* order of the dict.
RECURSIVE AggColumns(_, _)
AggColumns(d, keys) ==
    IF keys = << >> THEN << >>
    ELSE [k \in 1..Len(d[Head(keys)][1].funcs) |-> <<Head(keys), d[Head(keys)][1].funcs[k]>>]
         \o AggColumns(d, Tail(keys))

\* '_'.join(s) for a str s: its characters joined.
RECURSIVE JoinChars(_, _)
JoinChars(s, sep) ==
    IF Len(s) <= 1 THEN s
    ELSE Char(s, 1) \o sep \o JoinChars(SubSeq(s, 2, Len(s)), sep)

\* grouped.columns = ['_'.join(col).strip() if col[1] else col[0] for col in
\* grouped.columns.values].  When a value of agg_dict is a list the columns
\* are a MultiIndex and col is the pair (column, function); when every value
\* is a str the columns are plain labels, col is a str, col[1] its second
\* character, and the join runs over the characters of the label.
FlatColumn(d, col) ==
    IF \E key \in Range(d.keys) : d[key][1].list
    THEN Strip(col[1] \o "_" \o col[2])
    ELSE Strip(JoinChars(col[1], "_"))

calculate_group_by_result(df, group_cols, agg_funcs) ==
    IF group_cols = << >> THEN EmptyDataFrame(None)
    ELSE LET d == AggDict(agg_funcs, EmptyAggDict)
             cols == AggColumns(d, d.keys)
             keys == SortedKeys({KeyOf(df[k], group_cols) : k \in 1..Len(df)})
         IN  IF d.raised
             THEN EmptyDataFrame(Some("Error calculating result: 'str' object has no attribute 'append'"))
             ELSE Calculated(None,
                     group_cols \o [k \in 1..Len(cols) |-> FlatColumn(d, cols[k])],
                     [g \in 1..Len(keys) |->
                         keys[g] \o [k \in 1..Len(cols) |->
                                        Aggregate(GroupRows(df, group_cols, keys[g]), cols[k][2])]])

\* generate_group_by_query
generate_group_by_query(group_cols, agg_funcs, use_order, limit_results, limit_count) ==
    "SELECT \n    " \o Join(group_cols \o agg_funcs, ",\n    ") \o "\nFROM sales"
    \o (IF group_cols # << >> THEN "\nGROUP BY " \o Join(group_cols, ", ") ELSE "")
    \o (IF use_order
        THEN (IF group_cols # << >> THEN "\nORDER BY " \o group_cols[1]
                                    ELSE "\nORDER BY COUNT(*) DESC")
        ELSE "")
    \o (IF limit_results THEN "\nLIMIT " \o IntToStr(limit_count) ELSE "")
    \o ";"

\* What the Generate button of a builder of this page leaves on the screen
\* and what its calculate_* call returned.
Generated(query, returned, shown) == [query |-> query, returned |-> returned, shown |-> shown]

\* show_group_by_interactive after the Generate GROUP BY Query button.
show_group_by_interactive(df, p) ==
    IF p.group_columns # << >> /\ p.agg_functions # << >>
    THEN LET result_df == calculate_group_by_result(df, p.group_columns, p.agg_functions)
         IN  Generated(Some(generate_group_by_query(p.group_columns, p.agg_functions,
                                                    p.use_order_by, p.limit_results,
                                                    p.limit_count)),
                       Some(result_df),
                       IF result_df.rows # << >>
                       THEN Some(head(result_df.rows,
                                      IF p.limit_results THEN p.limit_count ELSE 20))
                       ELSE None)
    ELSE Generated(None, None, None)

\* str(value) of the float of st.number_input, given in hundredths.
FloatStr(value) ==
    LET cents == value % 100
    IN  IntToStr(value \div 100) \o "."
        \o (IF cents % 10 = 0 THEN IntToStr(cents \div 10)
            ELSE IF cents < 10 THEN "0" \o IntToStr(cents)
            ELSE IntToStr(cents))

\* generate_having_query
generate_having_query(group_col, aggregates, having_func, operator, value, use_where, where_cond) ==
    "SELECT \n    " \o Join(<<group_col>> \o aggregates, ",\n    ") \o "\nFROM sales"
    \o (IF use_where /\ where_cond # "" THEN "\nWHERE " \o where_cond ELSE "")
    \o "\nGROUP BY " \o group_col
    \o "\nHAVING " \o having_func \o " " \o operator \o " " \o FloatStr(value)
    \o "\nORDER BY " \o group_col \o ";"

\* The comparison of the chosen operator; anything that is not one of the
\* first four is taken as "=".
Compare(a, operator, b) ==
    IF operator = ">" THEN a > b
    ELSE IF operator = ">=" THEN a >= b
    ELSE IF operator = "<" THEN a < b
    ELSE IF operator = "<=" THEN a <= b
    ELSE a = b

\* calculate_having_result: grouped[grouped[filter_col] <op> value], on the
\* aggregates after .round(2).  value is in hundredths, like the amounts.
HavingHolds(rows, having_func, operator, value) ==
    IF having_func = "COUNT(*)" THEN Compare(Aggregate(rows, "count") * 100, operator, value)
    ELSE IF having_func = "SUM(sale_amount)" THEN Compare(Aggregate(rows, "sum"), operator, value)
    ELSE Compare(Aggregate(rows, "mean"), operator, value)

\* calculate_having_result.  The aggregates argument is not read.
calculate_having_result(df, group_col, aggregates, having_func, operator, value) ==
    IF having_func \notin {"COUNT(*)", "SUM(sale_amount)", "AVG(sale_amount)"}
    THEN EmptyDataFrame(Some("Error calculating result: cannot access local variable 'filter_col'"))
    ELSE LET keys == SortedKeys({<<df[k][group_col]>> : k \in 1..Len(df)})
             grouped == [g \in 1..Len(keys) |->
                            LET rows == GroupRows(df, <<group_col>>, keys[g])
                            IN  keys[g] \o <<Aggregate(rows, "count"), Aggregate(rows, "sum"),
                                             Aggregate(rows, "mean"), Aggregate(rows, "min"),
                                             Aggregate(rows, "max")>>]
             keep == {g \in 1..Len(keys) :
                         HavingHolds(GroupRows(df, <<group_col>>, keys[g]),
                                     having_func, operator, value)}
         IN  Calculated(None,
                        <<group_col, "count", "sum_amount", "avg_amount", "min_amount",
                          "max_amount">>,
                        Mask(grouped, keep))

\* show_having_interactive after the Generate HAVING Query button.
show_having_interactive(df, p) ==
    LET result_df == calculate_having_result(df, p.group_column, p.select_aggregates,
                                             p.having_function, p.having_operator,
                                             p.having_value)
    IN  Generated(Some(generate_having_query(p.group_column, p.select_aggregates,
                                             p.having_function, p.having_operator,
                                             p.having_value, p.add_where,
                                             p.where_condition)),
                  Some(result_df),
                  IF result_df.rows # << >> THEN Some(result_df.rows) ELSE None)

----------------------------------------------------------------------------
(* The two builders as state machines: the sales table and the widget       *)
(* values are drawn in the initial state, the action is the rerun of the    *)
(* Generate button.                                                         *)

\* The largest number of sales records.
MaxSales == 3

\* What a sales record can be: its category, region and amount in hundredths.
SaleChoices ==
    {[product_category |-> "Books", region |-> "South", sale_amount |-> 1000],
     [product_category |-> "Sports", region |-> "North", sale_amount |-> 1000],
     [product_category |-> "Sports", region |-> "North", sale_amount |-> 1004]}

\* pd.DataFrame(data['sales']) for the records drawn; sale_id counts from 1.
SalesTables ==
    UNION {{[i \in 1..n |-> Sale(i, c[i].product_category, c[i].region, c[i].sale_amount)] :
               c \in [1..n -> SaleChoices]} : n \in 1..MaxSales}

GroupColumnsTried == {"product_category", "region"}

\* The widget values of the GROUP BY builder: none, one or two of the grouping
\* columns and none, one or two of the five aggregates, both in selection
\* order, and the options.
GroupByParams ==
    LET group_columns == {<< >>} \cup {<<c>> : c \in GroupColumnsTried}
                         \cup {g \in GroupColumnsTried \X GroupColumnsTried : g[1] # g[2]}
        options == {"COUNT(*) as count", "SUM(sale_amount) as total_revenue",
                    "AVG(sale_amount) as avg_sale", "MIN(sale_amount) as min_sale",
                    "MAX(sale_amount) as max_sale"}
        agg_functions == {<< >>} \cup {<<a>> : a \in options}
                         \cup {a \in options \X options : a[1] # a[2]}
    IN  {[df |-> t, group_columns |-> g, agg_functions |-> a,
          use_order_by |-> o.use_order_by, limit_results |-> o.limit_results,
          limit_count |-> 10] :
            t \in SalesTables, g \in group_columns, a \in agg_functions,
            o \in {[use_order_by |-> TRUE, limit_results |-> FALSE],
                   [use_order_by |-> FALSE, limit_results |-> TRUE]}}

InitGroupBy ==
    /\ SessionUnopened
    /\ topic = "group_by"
    /\ params \in GroupByParams
    /\ pc = "ready"
    /\ out = None

\* The user presses Generate GROUP BY Query.
GenerateGroupBy ==
    /\ topic = "group_by"
    /\ pc = "ready"
    /\ out' = Some(show_group_by_interactive(params.df, params))
    /\ pc' = "done"
    /\ UNCHANGED <<sessionVars, topic, params>>

NextGroupBy == GenerateGroupBy

GroupBySpec == InitGroupBy /\ [][NextGroupBy]_vars

\* The widget values of the HAVING builder; the value of the number input is
\* in hundredths; the WHERE box is unticked, or ticked with a condition.
HavingParams ==
    {[df |-> t, group_column |-> g, select_aggregates |-> <<"COUNT(*)", "SUM(sale_amount)">>,
      having_function |-> f, having_operator |-> o, having_value |-> v,
      add_where |-> w.add_where, where_condition |-> w.where_condition] :
        t \in SalesTables, g \in GroupColumnsTried,
        f \in {"COUNT(*)", "SUM(sale_amount)", "AVG(sale_amount)"},
        o \in {">", ">=", "<", "<=", "="}, v \in {200, 1001, 2000},
        w \in {[add_where |-> FALSE, where_condition |-> ""],
               [add_where |-> TRUE, where_condition |-> "region = 'North'"]}}

InitHaving ==
    /\ SessionUnopened
    /\ topic = "having"
    /\ params \in HavingParams
    /\ pc = "ready"
    /\ out = None

\* The user presses Generate HAVING Query.
GenerateHaving ==
    /\ topic = "having"
    /\ pc = "ready"
    /\ out' = Some(show_having_interactive(params.df, params))
    /\ pc' = "done"
    /\ UNCHANGED <<sessionVars, topic, params>>

NextHaving == GenerateHaving

HavingSpec == InitHaving /\ [][NextHaving]_vars

----------------------------------------------------------------------------
(* The Aggregate page: the Custom Aggregate Query Builder of                *)
(* show_aggregate_interactive.  Amounts are in hundredths.                  *)

\* format(n, ",") of an integer n >= 0: groups of three digits
RECURSIVE Grouped(_)
Grouped(n) ==
    IF n < 1000 THEN IntToStr(n)
    ELSE LET low == n % 1000
         IN  Grouped(n \div 1000) \o ","
             \o (IF low < 10 THEN "00" ELSE IF low < 100 THEN "0" ELSE "") \o IntToStr(low)

\* f"{x:,.2f}" (grouping) and f"{x:.2f}" of a value given in hundredths
Fixed2(value, grouping) ==
    LET cents == value % 100
    IN  (IF grouping THEN Grouped(value \div 100) ELSE IntToStr(value \div 100))
        \o "." \o (IF cents < 10 THEN "0" ELSE "") \o IntToStr(cents)

generate_aggregate_query(func, column, distinct, use_where, where_col, where_val) ==
    LET distinct_part == IF distinct THEN "DISTINCT " ELSE ""
        select_part == IF func = "COUNT" /\ column = "sale_id"
                       THEN "SELECT COUNT(" \o distinct_part \o "*)"
                       ELSE "SELECT " \o func \o "(" \o distinct_part \o column \o ")"
    IN  select_part \o " FROM sales"
        \o (IF use_where /\ where_col # "" /\ where_val # ""
            THEN IF where_col \in {"product_category", "region"}
                 THEN "\nWHERE " \o where_col \o " = '" \o where_val \o "'"
                 ELSE "\nWHERE " \o where_col \o " = " \o where_val
            ELSE "")
        \o ";"

\* calculate_aggregate_result: the int of COUNT, the text of the other
\* functions, or the text of the except branch.  Of the values drawn for
\* where_val, int() raises ValueError for those that are not all digits.  An
\* empty selection has sum 0 and mean, min and max nan.
calculate_aggregate_result(df, func, column, distinct, use_where, where_col, where_val) ==
    LET filters == use_where /\ where_col # "" /\ where_val # ""
        raises == /\ filters
                  /\ where_col \notin {"product_category", "region"}
                  /\ DigitLen(where_val) # Len(where_val)
        kept == IF ~filters THEN df
                ELSE IF where_col \in {"product_category", "region"}
                THEN SelectSeq(df, LAMBDA r : r[where_col] = where_val)
                ELSE SelectSeq(df, LAMBDA r : r[where_col] = ParseInt(where_val))
        scale == IF column = "sale_amount" THEN 1 ELSE 100
        series == [k \in 1..Len(kept) |-> scale * kept[k][column]]
        first == {k \in 1..Len(series) : \A j \in 1..(k - 1) : series[j] # series[k]}
        values == IF distinct THEN Mask(series, first) ELSE series
        set == {values[k] : k \in 1..Len(values)}
        RECURSIVE Sum(_)
        Sum(v) == IF v = << >> THEN 0 ELSE Head(v) + Sum(Tail(v))
    IN  IF raises
        THEN "Error: invalid literal for int() with base 10: '" \o where_val \o "'"
        ELSE IF func = "COUNT" THEN Len(values)
        ELSE IF func = "SUM" THEN Fixed2(Sum(values), TRUE)
        ELSE IF values = << >> THEN "nan"
        ELSE IF func = "AVG" THEN Fixed2(RoundHalfEven(Sum(values), Len(values)), FALSE)
        ELSE IF func = "MIN" THEN Fixed2(CHOOSE a \in set : \A b \in set : a <= b, FALSE)
        ELSE Fixed2(CHOOSE a \in set : \A b \in set : a >= b, FALSE)

\* show_aggregate_interactive, the Generate Query button: the exception that
\* leaves the function, the query of st.code and the text of st.success.
\* where_column and where_value are assigned only when Add WHERE condition is
\* ticked; locals().get reads them with a default, "if where_value:" reads
\* the local itself.
show_aggregate_interactive(df, p) ==
    LET query == generate_aggregate_query(p.aggregate_function, p.column_name,
                                          p.use_distinct, p.use_where,
                                          IF p.use_where THEN p.where_column ELSE "",
                                          IF p.use_where THEN p.where_value ELSE "")
        result == calculate_aggregate_result(df, p.aggregate_function, p.column_name,
                                             p.use_distinct, p.use_where,
                                             p.where_column, p.where_value)
        \* the result is the int of COUNT unless the except branch returned
        is_int == /\ p.aggregate_function = "COUNT"
                  /\ \/ p.where_column \in {"product_category", "region"}
                     \/ DigitLen(p.where_value) = Len(p.where_value)
    IN  IF ~p.use_where
        THEN [raised |-> Some("UnboundLocalError"), query |-> Some(query), result |-> None]
        ELSE IF p.where_value = ""
        THEN [raised |-> None, query |-> Some(query), result |-> None]
        ELSE [raised |-> None, query |-> Some(query),
              result |-> Some("Result: " \o (IF is_int THEN IntToStr(result) ELSE result))]

\* The sales table of the page (quantity_sold and year added to the records
\* drawn) and the widget values of the builder.
InitAggregate ==
    /\ SessionUnopened
    /\ topic = "aggregate"
    /\ params \in
          {[df |-> [i \in 1..Len(t) |->
                      [sale_id |-> t[i].sale_id,
                       product_category |-> t[i].product_category,
                       region |-> t[i].region,
                       sale_amount |-> t[i].sale_amount,
                       quantity_sold |-> 3 - (i % 2),
                       year |-> 2025 + (i % 2)]],
            aggregate_function |-> f, column_name |-> c, use_distinct |-> d,
            use_where |-> w.use_where, where_column |-> w.where_column,
            where_value |-> w.where_value] :
             t \in SalesTables,
             f \in {"COUNT", "SUM", "AVG", "MIN", "MAX"},
             c \in {"sale_amount", "quantity_sold", "sale_id"},
             d \in BOOLEAN,
             w \in {[use_where |-> FALSE, where_column |-> "", where_value |-> ""]}
                   \cup [use_where : {TRUE},
                         where_column : {"product_category", "region", "year"},
                         where_value : {"", "Books", "2026", "North"}]}
    /\ pc = "ready"
    /\ out = None

\* The user presses Generate Query.
GenerateAggregate ==
    /\ topic = "aggregate"
    /\ pc = "ready"
    /\ out' = Some(show_aggregate_interactive(params.df, params))
    /\ pc' = "done"
    /\ UNCHANGED <<sessionVars, topic, params>>

AggregateSpec == InitAggregate /\ [][GenerateAggregate]_vars

----------------------------------------------------------------------------
(* The Aggregate page: the Window Function Builder.                         *)

\* calculate_window_result: the set of results the call can return (the sort
\* on one column leaves the order of equal keys open).  window_result is a
\* count or rank, or an amount in hundredths, or None for NaN.  With
\* PARTITION BY "None" the rows form one group, for which the branches
\* without groupby compute what the branches with groupby compute.  No
\* branch with groupby assigns window_result for LAG or LEAD: the selection
\* of the column then raises KeyError and the except branch returns
\* pd.DataFrame().
calculate_window_result(df, func, partition, order) ==
    LET n == Len(df)
        Before(a, b) == IF Contains(order, "sale_amount DESC") THEN a.sale_amount > b.sale_amount
                        ELSE IF Contains(order, "sale_amount ASC") THEN a.sale_amount < b.sale_amount
                        ELSE StrLess(a.sale_date, b.sale_date)
        rank == [i \in 1..n |-> Cardinality({j \in 1..n : Before(df[j], df[i])})]
        Key(r) == IF partition = "None" THEN ""
                  ELSE IF partition = "year" THEN IntToStr(r.year)
                  ELSE r[partition]
        Group(rows, key) == Mask(rows, {k \in 1..n : Key(rows[k]) = key})
        Means(g) == [i \in 1..Len(g) |-> RoundHalfEven(SumAmount(SubSeq(g, 1, i)), i)]
        RECURSIVE Flat(_, _)
        Flat(rows, keys) == IF keys = << >> THEN << >>
                            ELSE Means(Group(rows, Head(keys)[1])) \o Flat(rows, Tail(keys))
        Window(rows, k) ==
            LET upto == Mask(rows, {j \in 1..k : Key(rows[j]) = Key(rows[k])})
            IN  IF Contains(func, "ROW_NUMBER") THEN Len(upto)
                ELSE IF Contains(func, "RANK")
                THEN 1 + Cardinality({j \in 1..n : /\ Key(rows[j]) = Key(rows[k])
                                                    /\ rows[j].sale_amount > rows[k].sale_amount})
                ELSE IF Contains(func, "SUM") THEN SumAmount(upto)
                ELSE IF Contains(func, "AVG")
                THEN Flat(rows, SortedKeys({<<Key(rows[j])>> : j \in 1..n}))[k]
                ELSE IF Contains(func, "LAG")
                THEN (IF k = 1 THEN None ELSE rows[k - 1].sale_amount)
                ELSE (IF k = n THEN None ELSE rows[k + 1].sale_amount)
    IN  IF partition # "None" /\ (Contains(func, "LAG") \/ Contains(func, "LEAD"))
        THEN {EmptyDataFrame(Some("Error calculating window result: \"['window_result'] not in index\""))}
        ELSE {Calculated(None,
                         <<"sale_id", "product_category", "sale_amount", "sale_date",
                           "window_result">>,
                         [k \in 1..n |->
                            <<df[o[k]].sale_id, df[o[k]].product_category,
                              df[o[k]].sale_amount, df[o[k]].sale_date,
                              Window([j \in 1..n |-> df[o[j]]], k)>>]) :
                 o \in Arrangements(1..n, rank)}

\* The sales table of the builder (sale_date and year added to the records
\* drawn) and the values of its three select boxes.
InitWindow ==
    /\ SessionUnopened
    /\ topic = "window"
    /\ params \in
          {[df |-> [i \in 1..Len(t) |->
                      [sale_id |-> t[i].sale_id,
                       product_category |-> t[i].product_category,
                       region |-> t[i].region,
                       sale_amount |-> t[i].sale_amount,
                       sale_date |-> IF i % 2 = 1 THEN "2026-03-01" ELSE "2025-12-31",
                       year |-> 2025 + (i % 2)]],
            window_function |-> f, partition_by |-> p, order_by |-> o] :
             t \in SalesTables,
             f \in {"ROW_NUMBER()", "RANK()", "DENSE_RANK()", "SUM(sale_amount)",
                    "AVG(sale_amount)", "LAG(sale_amount)", "LEAD(sale_amount)"},
             p \in {"None", "product_category", "region", "year"},
             o \in {"sale_amount DESC", "sale_date", "sale_amount ASC"}}
    /\ pc = "ready"
    /\ out = None

\* The user presses Generate Window Function Query.
GenerateWindow ==
    /\ topic = "window"
    /\ pc = "ready"
    /\ \E result_df \in calculate_window_result(params.df, params.window_function,
                                                  params.partition_by, params.order_by) :
          out' = Some(result_df)
    /\ pc' = "done"
    /\ UNCHANGED <<sessionVars, topic, params>>

WindowSpec == InitWindow /\ [][GenerateWindow]_vars

----------------------------------------------------------------------------
(* The TCL page: the Bank Transfer Simulator.                               *)

\* The table shown as Account Balances (Before).
account_data ==
    [Account |-> <<"ACC1001", "ACC1002", "ACC1003", "ACC1004", "ACC1005", "ACC1006">>,
     Balance |-> <<5000, 7500, 3200, 8900, 4500, 6700>>]

\* show_transfer_execution: the SQL shown, the status and the table shown as
\* Account Balances (After).  amount is a float with no fractional part; an
\* f-string writes it with ".0".  sql_code holds the statements of the text
\* in their order; blank lines, line breaks inside a statement and the
\* comment lines of the closing part are left out.
show_transfer_execution(from_account, to_account, amount, simulate_error, use_savepoint) ==
    LET transfer ==
            "-- Check source account balance\n"
            \o "SELECT balance FROM accounts WHERE account_number = '" \o from_account \o "';\n"
            \o "-- Debit from source account\n"
            \o "UPDATE accounts SET balance = balance - " \o IntToStr(amount) \o ".0"
            \o " WHERE account_number = '" \o from_account \o "';\n"
            \o "-- Credit to destination account\n"
            \o "UPDATE accounts SET balance = balance + " \o IntToStr(amount) \o ".0"
            \o " WHERE account_number = '" \o to_account \o "';\n"
        sql_code ==
            IF use_savepoint
            THEN "START TRANSACTION;\nSAVEPOINT before_transfer;\n" \o transfer
                 \o (IF simulate_error
                     THEN "ROLLBACK TO SAVEPOINT before_transfer;\nROLLBACK;\n"
                     ELSE "COMMIT;\n")
            ELSE "START TRANSACTION;\n" \o transfer
                 \o (IF simulate_error THEN "ROLLBACK;\n" ELSE "COMMIT;\n")
        updated_data ==
            IF ~simulate_error
            THEN [Account |-> <<"ACC1001", "ACC1002", "ACC1003", "ACC1004", "ACC1005", "ACC1006">>,
                  Balance |-> <<IF from_account = "ACC1001" THEN 4000 ELSE 5000,
                                IF from_account = "ACC1002" THEN 6500 ELSE 7500,
                                IF from_account = "ACC1003" THEN 2200 ELSE 3200,
                                IF to_account = "ACC1004" THEN 9900 ELSE 8900,
                                IF to_account = "ACC1005" THEN 5500 ELSE 4500,
                                IF to_account = "ACC1006" THEN 7700 ELSE 6700>>]
            ELSE [Account |-> <<"ACC1001", "ACC1002", "ACC1003", "ACC1004", "ACC1005", "ACC1006">>,
                  Balance |-> <<5000, 7500, 3200, 8900, 4500, 6700>>]
    IN  [sql_code |-> sql_code,
         result_status |-> IF simulate_error THEN "ROLLED BACK" ELSE "COMMITTED",
         before |-> account_data,
         after |-> updated_data]

\* The widgets of show_transaction_demo: the amount is at least 1, 1000 by
\* default, and typed freely.
InitTransfer ==
    /\ SessionUnopened
    /\ topic = "transfer"
    /\ params \in [from_account : {"ACC1001", "ACC1002", "ACC1003"},
                    to_account : {"ACC1004", "ACC1005", "ACC1006"},
                    amount : {1, 900, 1000, 1100, 6000},
                    simulate_error : BOOLEAN,
                    use_savepoint : BOOLEAN]
    /\ pc = "ready"
    /\ out = None

\* The user presses Execute Transfer.
ExecuteTransfer ==
    /\ topic = "transfer"
    /\ pc = "ready"
    /\ out' = Some(show_transfer_execution(params.from_account, params.to_account,
                                            params.amount, params.simulate_error,
                                            params.use_savepoint))
    /\ pc' = "done"
    /\ UNCHANGED <<sessionVars, topic, params>>

TransferSpec == InitTransfer /\ [][ExecuteTransfer]_vars

----------------------------------------------------------------------------
(* app.py: the navigation.  Every page function of app.py loads its page    *)
(* module from src/pages and calls the module's entry function through     *)
(* safe_call_function.  A loaded module is the set of names it defines.     *)

MaxVisits == 2

\* Mutant: the application dispatches every page to main.
EntryFunctionMain(module_file) == "main"

\* show_home .. show_query_editor of app.py: the function name passed to
\* safe_call_function for the module file.
EntryFunction(module_file) ==
    IF module_file = "01_Home.py" THEN "show_home"
    ELSE IF module_file = "02_BasicQuery.py" THEN "show_basic_query"
    ELSE "main"

\* The functions and classes a page module defines at its top level, in
\* source order.
ModuleFunctions(module_file) ==
    IF module_file = "01_Home.py"
    THEN {"show_home"}
    ELSE IF module_file = "02_BasicQuery.py"
    THEN {"get_sample_data", "create_query_result", "show_basic_query",
          "create_progress_indicator", "create_learning_objectives",
          "create_content_tabs", "show_select_basics",
          "create_select_theory_section",
          "create_select_interactive_section",
          "generate_select_example", "show_performance_tip",
          "create_select_sidebar_content", "show_where_clause",
          "create_where_theory_section",
          "create_where_interactive_section",
          "generate_where_example", "create_where_sidebar_content",
          "show_order_by", "create_order_by_theory_section",
          "create_order_by_interactive_section",
          "show_sorting_insights",
          "create_order_by_sidebar_content", "show_limit_offset",
          "create_limit_theory_section",
          "create_limit_interactive_section",
          "create_limit_sidebar_content", "show_practice_lab",
          "create_guided_exercises", "create_challenge_problems",
          "create_query_builder", "create_module_summary"}
    ELSE IF module_file = "03_DDL.py"
    THEN {"get_ddl_sample_data", "show_database_operations",
          "show_database_theory", "show_database_interactive",
          "show_database_sidebar", "show_table_operations",
          "show_table_theory", "show_table_interactive",
          "generate_create_table_sql", "show_table_sidebar",
          "show_indexes_constraints", "show_indexes_theory",
          "show_indexes_interactive", "show_indexes_sidebar",
          "show_storage_engines", "show_engines_theory",
          "show_engines_interactive", "simulate_engine_performance",
          "show_engines_sidebar", "show_practice_lab",
          "show_guided_exercises", "show_ddl_challenges",
          "show_schema_designer", "generate_complete_ddl", "main"}
    ELSE IF module_file = "04_DML.py"
    THEN {"get_dml_sample_data", "show_insert_operations",
          "show_insert_theory", "show_insert_interactive",
          "generate_bulk_insert", "show_insert_sidebar",
          "show_update_operations", "show_update_theory",
          "show_update_interactive", "show_update_sidebar",
          "show_delete_operations", "show_delete_theory",
          "show_delete_interactive", "generate_delete_statement",
          "simulate_cleanup_impact", "show_delete_sidebar",
          "show_import_export", "show_import_export_theory",
          "show_import_export_interactive",
          "generate_import_statement", "generate_export_statement",
          "show_import_export_sidebar", "show_practice_lab",
          "show_guided_dml_exercises", "show_realworld_scenarios",
          "show_performance_challenge", "main"}
    ELSE IF module_file = "05_DCL.py"
    THEN {"get_sample_users", "get_privilege_types", "get_sample_roles",
          "show_dcl_introduction", "show_user_management",
          "show_privilege_management", "show_role_management",
          "show_security_best_practices", "user_management_tool",
          "privilege_analyzer", "dcl_practice_lab", "main"}
    ELSE IF module_file = "06_TCL.py"
    THEN {"get_tcl_sample_data", "show_transaction_fundamentals",
          "show_acid_properties", "show_basic_transaction_syntax",
          "show_transaction_demo", "show_transfer_execution",
          "show_fundamentals_sidebar", "show_savepoints_nested",
          "show_isolation_levels", "show_practice_lab",
          "show_basic_transaction_exercise",
          "show_savepoint_exercise", "show_isolation_exercise",
          "show_deadlock_exercise", "show_performance_exercise",
          "main"}
    ELSE IF module_file = "07_AggregateQuery.py"
    THEN {"get_aggregate_sample_data", "show_basic_aggregates",
          "show_aggregate_theory", "show_aggregate_interactive",
          "generate_aggregate_query", "calculate_aggregate_result",
          "show_aggregate_sidebar", "show_group_by_operations",
          "show_group_by_theory", "show_group_by_interactive",
          "generate_group_by_query", "calculate_group_by_result",
          "show_group_by_visualizations",
          "show_basic_group_by_charts", "show_group_by_sidebar",
          "show_having_clause", "show_having_theory",
          "show_having_interactive", "generate_having_query",
          "calculate_having_result", "show_having_patterns",
          "show_having_sidebar", "show_window_functions",
          "show_window_theory", "show_window_interactive",
          "generate_window_query", "calculate_window_result",
          "show_window_examples", "show_window_sidebar",
          "show_practice_lab", "show_progressive_exercises",
          "show_bi_scenarios", "show_advanced_analytics", "main"}
    ELSE {"get_sample_database", "get_query_templates", "get_sample_queries",
          "QueryAnalyzer", "QueryExecutor", "show_query_editor",
          "show_main_editor", "show_query_results",
          "show_result_visualization", "show_query_analysis",
          "show_editor_sidebar", "show_query_assistant",
          "show_query_builder", "main", "show_data_explorer"}

\* load_module: the module, or None when executing the file raised.
load_module(module_file, loads) ==
    IF loads THEN Some(ModuleFunctions(module_file)) ELSE None

\* safe_call_function: what the page shows.  "called" is the content of the
\* entry function, "placeholder" the fallback with "This module is under
\* development", "error" the message of the exception the function raised
\* followed by the fallback title and description.
safe_call_function(module, function_name, raises) ==
    IF module # None /\ function_name \in module[1]
    THEN IF raises THEN "error" ELSE "called"
    ELSE "placeholder"

InitNavigation ==
    /\ SessionUnopened
    /\ topic = "navigation"
    /\ params = None
    /\ pc = "ready"
    /\ out = << >>

\* The user opens a page of the sidebar navigation: nav.run() runs its page
\* function.  Whether the module file executes and whether the entry function
\* raises depend on the installation and on the page's widgets.
Navigate ==
    /\ topic = "navigation"
    /\ Len(out) < MaxVisits
    /\ \E module_file \in {"01_Home.py", "02_BasicQuery.py", "03_DDL.py", "04_DML.py",
                             "05_DCL.py", "06_TCL.py", "07_AggregateQuery.py",
                             "SQLQueryEditor.py"},
          loads \in BOOLEAN, raises \in BOOLEAN :
          LET module == load_module(module_file, loads)
          IN  out' = Append(out, [page |-> module_file,
                                  module |-> module,
                                  function_name |-> EntryFunction(module_file),
                                  shown |-> safe_call_function(module,
                                               EntryFunction(module_file), raises)])
    /\ UNCHANGED <<sessionVars, topic, params, pc>>

NavigationSpec == InitNavigation /\ [][Navigate]_vars

----------------------------------------------------------------------------
(* The TCL page: the interactive savepoint simulator of                     *)
(* show_savepoints_nested.  out is st.session_state.savepoint_demo, params  *)
(* the values of the Amount and Rollback to Savepoint widgets, pc the       *)
(* button whose press caused the rerun.                                     *)

MaxBalance == 1500

MaxSavepoints == 3

MaxOperations == 3

MaxPresses == 9

\* The rerun of a pressed button: the demo dictionary it leaves.  presses
\* counts the buttons pressed in the session; a session of the model ends
\* after MaxPresses of them.
Rerun(button, amount, rollback_target, demo) ==
    /\ params.presses < MaxPresses
    /\ pc' = button
    /\ params' = [amount |-> amount, rollback_target |-> rollback_target,
                  presses |-> params.presses + 1]
    /\ out' = demo
    /\ UNCHANGED <<sessionVars, topic>>

\* The first render: the session state the page creates; the user has set
\* the Amount widget to 500.
InitSavepoints ==
    /\ SessionUnopened
    /\ topic = "savepoints"
    /\ params = [amount |-> 500, rollback_target |-> None, presses |-> 0]
    /\ pc = "none"
    /\ out = [balance |-> 1000, savepoints |-> << >>, operations |-> << >>,
              transaction_active |-> FALSE]

\* START TRANSACTION is not conditional on the state: it starts the log
\* again and leaves the balance and the savepoints as they are.
StartTransaction ==
    /\ topic = "savepoints"
    /\ Rerun("start", params.amount, None,
             [out EXCEPT !.transaction_active = TRUE,
                         !.operations = <<"START TRANSACTION">>])

\* The savepoint is named after the number of savepoints held.
CreateSavepoint ==
    /\ Len(out.savepoints) < MaxSavepoints
    /\ Len(out.operations) < MaxOperations
    /\ LET savepoint_name == "sp_" \o IntToStr(Len(out.savepoints) + 1)
       IN  Rerun("create", params.amount, None,
                 IF out.transaction_active
                 THEN [out EXCEPT
                         !.savepoints = Append(@, [name |-> savepoint_name,
                                                   balance |-> out.balance,
                                                   operation_count |-> Len(out.operations)]),
                         !.operations = Append(@, "SAVEPOINT " \o savepoint_name)]
                 ELSE out)

Commit ==
    /\ Len(out.operations) < MaxOperations
    /\ Rerun("commit", params.amount, None,
             IF out.transaction_active
             THEN [out EXCEPT !.transaction_active = FALSE,
                              !.savepoints = << >>,
                              !.operations = Append(@, "COMMIT")]
             ELSE out)

\* The Account Operations are rendered while the transaction is active.
Deposit ==
    /\ out.transaction_active
    /\ Len(out.operations) < MaxOperations
    /\ \E amount \in {500} :
          /\ out.balance + amount <= MaxBalance
          /\ Rerun("deposit", amount, None,
                   [out EXCEPT !.balance = @ + amount,
                               !.operations = Append(@, "DEPOSIT +$" \o IntToStr(amount))])

\* Mutant: WITHDRAW without the check of the balance.
WithdrawUnchecked ==
    /\ out.transaction_active
    /\ Len(out.operations) < MaxOperations
    /\ \E amount \in {500} :
          Rerun("withdraw", amount, None,
                [out EXCEPT !.balance = @ - amount,
                            !.operations = Append(@, "WITHDRAW -$" \o IntToStr(amount))])

Withdraw ==
    /\ out.transaction_active
    /\ Len(out.operations) < MaxOperations
    /\ \E amount \in {500} :
          Rerun("withdraw", amount, None,
                IF out.balance >= amount
                THEN [out EXCEPT !.balance = @ - amount,
                                 !.operations = Append(@, "WITHDRAW -$" \o IntToStr(amount))]
                ELSE out)

\* The select box and the button are rendered while a savepoint is held; the
\* loop acts on the first savepoint whose name is the target.
RollbackToSavepoint ==
    /\ out.transaction_active
    /\ out.savepoints # << >>
    /\ Len(out.operations) < MaxOperations
    /\ \E k \in 1..Len(out.savepoints) :
          LET target == out.savepoints[k].name
              first == CHOOSE i \in 1..Len(out.savepoints) :
                          /\ out.savepoints[i].name = target
                          /\ \A j \in 1..(i - 1) : out.savepoints[j].name # target
              sp == out.savepoints[first]
          IN  Rerun("rollback", params.amount, Some(target),
                    [out EXCEPT
                       !.balance = sp.balance,
                       !.operations =
                          Append(SubSeq(@, 1, Min(sp.operation_count, Len(@))),
                                 "ROLLBACK TO SAVEPOINT " \o target),
                       !.savepoints =
                          SelectSeq(@, LAMBDA x : x.operation_count <= sp.operation_count)])

NextSavepoints ==
    \/ StartTransaction
    \/ CreateSavepoint
    \/ Commit
    \/ Deposit
    \/ Withdraw
    \/ RollbackToSavepoint

SavepointSpec == InitSavepoints /\ [][NextSavepoints]_vars

----------------------------------------------------------------------------
(* Claims about the SQL Query Editor session, checked under Spec.           *)

\* C3: every press of Execute with a non-blank query appends exactly one entry
\* to the end of the Query History, holding the query text and the success
\* flag the executor returned, also when that text was executed before; and no
\* step removes, reorders or changes an entry that is already in the history.
C3_ExecuteAppendsOneEntry ==
    [][/\ (pressed' = "execute" /\ Strip(editor_text) # "") =>
             query_history' =
                Some(Append(query_history[1],
                            [query |-> editor_text,
                             success |-> execute_query(database[1], editor_text).success]))
       /\ query_history # None =>
             /\ query_history' # None
             /\ Len(query_history'[1]) >= Len(query_history[1])
             /\ SubSeq(query_history'[1], 1, Len(query_history[1])) = query_history[1]
      ]_vars

\* The same query text was executed twice and is in the history twice.
C3_Witness ==
    /\ query_history # None
    /\ Len(query_history[1]) = 2
    /\ query_history[1][1].query = query_history[1][2].query
    /\ query_history[1][2].query = editor_text
    /\ pressed = "execute"

\* C6: once the session is initialised no interaction changes the sample
\* database; Execute leaves Favorites unchanged; Save, delete-favourite and
\* every other rerun in which Execute was not pressed leave Query History
\* unchanged.
C6_InteractionsKeepDatabase ==
    [][database # None =>
          /\ database' = database
          /\ pressed' = "execute" => favorites' = favorites
          /\ pressed' # "execute" => query_history' = query_history
      ]_vars

\* A failing query was executed after a favourite was saved, in a session
\* whose database was generated from the second seed.
C6_Witness ==
    /\ database = Some(get_sample_database(2))
    /\ Len(favorites[1]) > 0
    /\ Len(query_history[1]) > 0
    /\ ~query_history[1][Len(query_history[1])].success
    /\ pressed = "execute"

\* list is an initial segment of longer
IsPrefix(list, longer) ==
    /\ Len(list) <= Len(longer)
    /\ SubSeq(longer, 1, Len(list)) = list

\* C13: Query History and Favorites are created empty on the first render of
\* the Query Editor together with the sample database and are never
\* re-initialised by a later render: whenever the session holds a database it
\* holds both lists, the render that creates the database creates both lists
\* empty, and every later render keeps the entries recorded before it (the
\* history only grows at its end; the favourites grow at their end unless the
\* user deletes one).
C13_ListsCreatedOnceWithDatabase ==
    [][/\ database' # None => (query_history' # None /\ favorites' # None)
       /\ (database = None /\ database' # None) =>
             (query_history' = Some(<< >>) /\ favorites' = Some(<< >>))
       /\ database # None =>
             /\ database' # None
             /\ IsPrefix(query_history[1], query_history'[1])
             /\ Len(favorites'[1]) >= Len(favorites[1]) =>
                   IsPrefix(favorites[1], favorites'[1])
      ]_vars

\* Two history entries and a favourite recorded by earlier renders are held
\* after the render that recorded the second favourite.
C13_Witness ==
    /\ database # None
    /\ Len(query_history[1]) = 2
    /\ Len(favorites[1]) = 2
    /\ pressed = "save"

\* C11: pressing the delete button of the favourite at index i removes exactly
\* the entry at index i: the list becomes one entry shorter, every other entry
\* keeps its content and its relative order; and no interaction removes more
\* than one entry.
C11_DeleteRemovesEntryAtIndex ==
    [][favorites # None =>
          /\ \A i \in 0..(Len(favorites[1]) - 1) :
                DeleteFavoriteAt(i) =>
                   /\ Len(favorites'[1]) = Len(favorites[1]) - 1
                   /\ \A k \in 1..Len(favorites'[1]) :
                         favorites'[1][k] = favorites[1][IF k <= i THEN k ELSE k + 1]
          /\ Len(favorites'[1]) >= Len(favorites[1]) - 1
      ]_vars

\* The first of two saved favourites was deleted: the one named "Query 2" is
\* the only entry left.
C11_Witness ==
    /\ favorites # None
    /\ Len(favorites[1]) = 1
    /\ favorites[1][1].name = "Query 2"

\* C28: pressing a Query History entry, a favourite or a sample Load Query
\* button makes the query text of that entry the content of the query input
\* on the next render (the text a following Execute runs).
C28_LoadedQueryFillsTheEditor ==
    [][selected_query' # selected_query => editor_text' = selected_query'[1]]_vars

----------------------------------------------------------------------------
(* Claims about QueryExecutor, checked under ExecSpec.                      *)

\* The query as execute_query sees it, its tokens, and what the claims call
\* its statement kind, its table name and its select list.
CleanQuery(q) == RStripChar(Strip(q), ";")

IsSelect(q) == StartsWith(StrUpper(CleanQuery(q)), "SELECT")

IsShowTables(q) == ~IsSelect(q) /\ StartsWith(StrUpper(CleanQuery(q)), "SHOW TABLES")

IsDescribe(q) ==
    ~IsSelect(q) /\ ~IsShowTables(q) /\ StartsWith(StrUpper(CleanQuery(q)), "DESC")

HasTableToken(q) ==
    LET parts == Split(CleanQuery(q))
    IN  FromIndex(parts) # 0 /\ FromIndex(parts) < Len(parts)

SelectTable(q) ==
    LET parts == Split(CleanQuery(q))
    IN  RemoveChar(RemoveChar(parts[FromIndex(parts) + 1], ","), ";")

DescribedTable(q) == RemoveChar(Split(CleanQuery(q))[2], ";")

\* C5: execute_query returns a result record for every query: success with a
\* non-null result table, or failure with an error message and result None;
\* an unsupported statement, a SELECT with no table token after FROM and a
\* table name that is not in the database each give failure.
C5_ExecuteQueryReturnsRecord ==
    (topic = "execute_query" /\ pc = "done") =>
        LET r == out[1]
            q == params.query
        IN  /\ \/ r.success /\ r.result # None /\ r.error = None
               \/ ~r.success /\ r.error # None /\ r.result = None
            /\ (~IsSelect(q) /\ ~IsShowTables(q) /\ ~IsDescribe(q)) => ~r.success
            /\ (IsSelect(q) /\ ~HasTableToken(q)) => ~r.success
            /\ (IsSelect(q) /\ HasTableToken(q) /\ SelectTable(q) \notin Range(TableNames))
                  => ~r.success
            /\ (IsDescribe(q) /\ Len(Split(CleanQuery(q))) >= 2
                  /\ DescribedTable(q) \notin Range(TableNames)) => ~r.success

\* A SELECT on a table that is not in the database has failed.
C5_Witness ==
    /\ topic = "execute_query"
    /\ pc = "done"
    /\ params.query = "SELECT * FROM bogus"
    /\ out[1].error = Some("Table 'bogus' not found")

\* The select list of a SELECT: the tokens between SELECT and FROM, commas removed.
SelectList(q) ==
    LET parts == Split(CleanQuery(q))
    IN  [k \in 1..(FromIndex(parts) - 2) |-> RemoveChar(parts[k + 1], ",")]

IsIdentifier(token) ==
    /\ Len(token) > 0
    /\ \A i \in 1..Len(token) :
          Char(token, i) \in (DOMAIN ToUpper) \cup (DOMAIN ToLower) \cup {"_"}

\* The SELECT list names a column that the table of the query does not have.
NamesUnknownColumn(q) ==
    /\ IsSelect(q)
    /\ HasTableToken(q)
    /\ SelectTable(q) \in Range(TableNames)
    /\ \E k \in 1..Len(SelectList(q)) :
          /\ IsIdentifier(SelectList(q)[k])
          /\ SelectList(q)[k] \notin Range(TableColumns(SelectTable(q)))

\* C7 (as claimed): a SELECT whose select list names a column absent from the
\* table ends in an error outcome, never in a successful result.
C7_UnknownColumnIsAnError ==
    (topic = "execute_query" /\ pc = "done" /\ NamesUnknownColumn(params.query))
        => ~out[1].success

\* C26: execute_select returns at most 10 rows for a SELECT whose text has no
\* 'LIMIT <number>' clause; with a clause LIMIT n it returns the first
\* min(n, table rows) rows of the table in table order; in both cases
\* rows_affected is the number of rows returned.
C26_SelectReturnsBoundedRows ==
    (topic = "execute_query" /\ pc = "done" /\ IsSelect(params.query) /\ out[1].success) =>
        LET q == params.query
            limit == LimitMatch(q)
            rows == out[1].result[1].rows
            table == database[1][SelectTable(q)].rows
        IN  /\ limit = None => Len(rows) <= 10
            /\ limit # None => rows = SubSeq(table, 1, Min(ParseInt(limit[1]), Len(table)))
            /\ out[1].rows_affected = Some(Len(rows))

----------------------------------------------------------------------------
(* Claims about the Basic Query simulators, checked under BuilderSpec and   *)
(* BasicSpec.                                                               *)

\* The WHERE predicate that the generated query shows, on a row of the
\* sample table: a comparison with the quoted value (numeric when the column
\* is numeric and the value is a number, textual otherwise), or LIKE '%value%'.
WherePredicate(r, col, op, value) ==
    LET text == AsStr(col, r[col])
        numeric == IsIntColumn(col) /\ value # "" /\ DigitLen(value) = Len(value)
        less(a, b) == IF numeric THEN ParseInt(a) < ParseInt(b) ELSE StrLess(a, b)
    IN  IF op = "=" THEN text = value
        ELSE IF op = "!=" THEN text # value
        ELSE IF op = ">" THEN less(value, text)
        ELSE IF op = "<" THEN less(text, value)
        ELSE IF op = ">=" THEN ~less(text, value)
        ELSE IF op = "<=" THEN ~less(value, text)
        ELSE Contains(StrLower(text), StrLower(value))

\* C1: for every filter column, operator and non-empty filter value, the table
\* the query builder displays holds only rows of the sample table that satisfy
\* the WHERE predicate of the generated query, and never more rows than the
\* sample table.
C1_BuilderResultSatisfiesWhere ==
    (/\ topic = "query_builder"
     /\ pc = "done"
     /\ UsesWhere(params)
     /\ out[1].result # None) =>
        LET shown == out[1].result[1]
        IN  /\ Len(shown.rows) <= Len(get_sample_data)
            /\ \A k \in 1..Len(shown.rows) :
                  \E i \in 1..Len(get_sample_data) :
                     /\ shown.rows[k] = Project(get_sample_data, shown.columns)[i]
                     /\ WherePredicate(get_sample_data[i], params.where_column,
                                       params.where_operator, params.where_value)

\* C12: comparing a textual filter value with a numeric column is reported as
\* an error and is never silently coerced or dropped; here for the Basic Query
\* builder with operator '=' on a numeric column (id, salary, age): the
\* handler shows an error.
C12_TextAgainstNumberIsAnError ==
    (/\ topic = "query_builder"
     /\ pc = "done"
     /\ UsesWhere(params)
     /\ params.where_operator = "="
     /\ IsIntColumn(params.where_column)
     /\ DigitLen(params.where_value) # Len(params.where_value)) =>
        out[1].error # None

\* C16: in a generated WHERE clause the literal is enclosed in single quotes
\* exactly when the filter column is textual and is left unquoted when the
\* column is numeric; here for the comparison operators of the Basic Query
\* builder (numeric columns id, salary, age).
C16_LiteralQuotedIffTextual ==
    (/\ topic = "query_builder"
     /\ pc = "done"
     /\ out[1].query # None
     /\ UsesWhere(params)
     /\ params.where_operator # "LIKE") =>
        LET clause == "WHERE " \o params.where_column \o " " \o params.where_operator \o " "
        IN  IF IsIntColumn(params.where_column)
            THEN /\ Contains(out[1].query[1], clause \o params.where_value)
                 /\ ~Contains(out[1].query[1], clause \o "'")
            ELSE Contains(out[1].query[1], clause \o "'" \o params.where_value \o "'")

\* query has an ORDER BY clause that begins with column followed by ASC or DESC
OrdersExplicitlyBy(query, column) ==
    \/ Contains(query, "ORDER BY " \o column \o " ASC")
    \/ Contains(query, "ORDER BY " \o column \o " DESC")

\* C17: every ORDER BY clause produced by a query generator lists its sort
\* keys in the order chosen and gives each key an explicit ASC or DESC; here
\* for the ORDER BY demo and for every page of the pagination demo.
C17_OrderByNamesDirection ==
    /\ (topic = "order_by_demo" /\ pc = "done") =>
          /\ OrdersExplicitlyBy(out[1].query[1], params.primary_column)
          /\ params.enable_secondary =>
                \/ Contains(out[1].query[1], params.secondary_column \o " ASC;")
                \/ Contains(out[1].query[1], params.secondary_column \o " DESC;")
    /\ (topic = "limit_demo" /\ out # None) =>
          \A k \in 1..Len(out[1]) :
             OrdersExplicitlyBy(out[1][k].query[1], params.sort_column)

\* The WHERE predicate of a fixed example, read from its SQL text: BETWEEN
\* includes both bounds, LIKE 'J%' holds for the names that begin with J.
SqlWhere(query, r) ==
    IF query = "SELECT * FROM employees WHERE department = 'IT';"
    THEN r.department = "IT"
    ELSE IF query = "SELECT * FROM employees WHERE salary > 70000;"
    THEN r.salary > 70000
    ELSE IF query = "SELECT * FROM employees WHERE department = 'IT' AND salary > 70000;"
    THEN r.department = "IT" /\ r.salary > 70000
    ELSE IF query = "SELECT * FROM employees WHERE department = 'IT' OR department = 'HR';"
    THEN r.department = "IT" \/ r.department = "HR"
    ELSE IF query = "SELECT * FROM employees WHERE salary BETWEEN 65000 AND 75000;"
    THEN 65000 <= r.salary /\ r.salary <= 75000
    ELSE IF query = "SELECT * FROM employees WHERE department IN ('IT', 'Finance', 'Marketing');"
    THEN \E d \in {"IT", "Finance", "Marketing"} : r.department = d
    ELSE IF query = "SELECT * FROM employees WHERE name LIKE 'J%';"
    THEN Len(r.name) >= 1 /\ SubSeq(r.name, 1, 1) = "J"
    ELSE IF query = "SELECT * FROM employees WHERE status IS NOT NULL;"
    THEN r.status \in STRING
    ELSE FALSE

\* The SQL text that a condition of create_query_result stands for.
ConditionQuery(condition) ==
    IF condition = "department_it" THEN "SELECT * FROM employees WHERE department = 'IT';"
    ELSE IF condition = "salary_high" THEN "SELECT * FROM employees WHERE salary > 70000;"
    ELSE IF condition = "salary_range"
    THEN "SELECT * FROM employees WHERE salary BETWEEN 65000 AND 75000;"
    ELSE "SELECT * FROM employees WHERE name LIKE 'J%';"

\* rows is the rows of data that satisfy the predicate of query, in the order
\* of data; the rows whose salary is a bound of the BETWEEN example are among
\* them.
IsFilterOf(rows, data, query) ==
    /\ rows = SelectSeq(data.rows, LAMBDA r : SqlWhere(query, r))
    /\ query = "SELECT * FROM employees WHERE salary BETWEEN 65000 AND 75000;" =>
          \A k \in 1..Len(data.rows) :
             data.rows[k].salary \in {65000, 75000} =>
                \E j \in 1..Len(rows) : rows[j] = data.rows[k]

\* C15: each of the eight fixed WHERE examples and each of the four fixed
\* conditions of create_query_result(query_type = "where_filter") returns
\* exactly the rows of the input table that satisfy the WHERE predicate of
\* the example, in table order; salary BETWEEN 65000 AND 75000 includes the
\* rows whose salary equals either bound.
C15_WhereExamplesFilterExactly ==
    pc = "done" =>
       /\ topic = "where_example" =>
             /\ out[1].result.columns = params.data.columns
             /\ IsFilterOf(out[1].result.rows, params.data, out[1].query)
       /\ (/\ topic = "query_result"
           /\ params.query_type = "where_filter"
           /\ params.kwargs.condition \in
                 {Some(c) : c \in {"department_it", "salary_high", "salary_range",
                                    "name_starts_j"}}) =>
             /\ out[1].columns = params.data.columns
             /\ IsFilterOf(out[1].rows, params.data,
                           ConditionQuery(params.kwargs.condition[1]))

\* The range condition on the whole sample table returned its five rows, the
\* rows with salary 75000 and 65000 first.
C15_Witness ==
    /\ topic = "query_result"
    /\ pc = "done"
    /\ params.query_type = "where_filter"
    /\ params.kwargs.condition = Some("salary_range")
    /\ Len(params.data.rows) = 8
    /\ Len(out[1].rows) = 5
    /\ out[1].rows[1].salary = 75000
    /\ out[1].rows[2].salary = 65000

\* The pages in order, one after the other.
RECURSIVE Concat(_)
Concat(pages) == IF pages = << >> THEN << >> ELSE Head(pages) \o Concat(Tail(pages))

\* rows holds every row of the table exactly once, in the order of the column.
IsSortedTable(rows, table, col) ==
    /\ Len(rows) = Len(table)
    /\ Range(rows) = Range(table)
    /\ \A i \in 1..Len(rows) : \A j \in (i + 1)..Len(rows) :
          ~ValueLess(col, rows[j][col], rows[i][col])

\* C4: with page size L >= 1 and offset O >= 0 on a table of N rows the page
\* has min(L, max(0, N - O)) rows, and the pages 1..ceil(N/L) in order make up
\* the whole (sorted) table, every row once; for the pagination demo and for
\* create_query_result(query_type='limit').
C4_PagesPartitionTheTable ==
    /\ (topic = "limit_demo" /\ out # None) =>
          LET pages == [p \in 1..Len(out[1]) |-> out[1][p].result[1].rows]
              L == params.page_size
              N == Len(get_sample_data)
          IN  /\ \A p \in 1..Len(pages) :
                    Len(pages[p]) = Min(L, Max(0, N - (p - 1) * L))
              /\ pc = "done" =>
                    /\ Len(pages) * L >= N
                    /\ (Len(pages) - 1) * L < N
                    /\ IsSortedTable(Concat(pages), get_sample_data, params.sort_column)
    /\ (topic = "query_result" /\ pc = "done" /\ params.query_type = "limit") =>
          LET L == Get(params.kwargs, "limit", 3)
              O == Get(params.kwargs, "offset", 0)
              N == Len(params.data.rows)
              page(p) == CHOOSE t \in create_query_result(params.data, "limit",
                            [NoKwargs EXCEPT !.limit = Some(L), !.offset = Some((p - 1) * L)]) :
                            TRUE
          IN  /\ Len(out[1].rows) = Min(L, Max(0, N - O))
              /\ Concat([p \in 1..((N + L - 1) \div L) |-> page(p).rows]) = params.data.rows

\* The demo showed all three pages of size 3, the last one with two rows.
C4_Witness ==
    /\ topic = "limit_demo"
    /\ pc = "done"
    /\ params.page_size = 3
    /\ Len(out[1]) = 3
    /\ Len(out[1][3].result[1].rows) = 2

\* Rows of the input with equal values on every key keep their order.
KeepsOrderOfTies(input, result, by) ==
    \A i \in 1..Len(input) : \A j \in (i + 1)..Len(input) :
        (\A k \in 1..Len(by) : input[i][by[k]] = input[j][by[k]]) =>
            \E a \in 1..Len(result) : \E b \in (a + 1)..Len(result) :
                result[a] = input[i] /\ result[b] = input[j]

\* C10: in the ORDER BY demo (one key, or a primary and a secondary key) and
\* in create_query_result(query_type='order_by'), two rows of the input that
\* are equal on every sort key appear in the result in their input order.
C10_SortIsStable ==
    /\ (topic = "order_by_demo" /\ pc = "done") =>
          KeepsOrderOfTies(get_sample_data, out[1].result[1].rows,
                           IF params.enable_secondary
                           THEN <<params.primary_column, params.secondary_column>>
                           ELSE <<params.primary_column>>)
    /\ (topic = "query_result" /\ pc = "done" /\ params.query_type = "order_by") =>
          KeepsOrderOfTies(params.data.rows, out[1].rows,
                           <<Get(params.kwargs, "column", "name")>>)

----------------------------------------------------------------------------
(* Claims about the GROUP BY and HAVING builders, checked under GroupBySpec *)
(* and HavingSpec.                                                          *)

\* The distinct key tuples of the table for the grouping columns.
KeyTuples(df, group_cols) == {KeyOf(df[k], group_cols) : k \in 1..Len(df)}

\* C2: for every non-empty list of grouping columns and every non-empty
\* selection of the offered aggregates, in any selection order,
\* calculate_group_by_result returns one row per distinct key tuple of the
\* input and one value column per selected aggregate, and when COUNT(*) is
\* selected a value column holds, for every row, the number of input rows
\* with the row's key tuple.
C2_GroupByOneRowPerKey ==
    (/\ topic = "group_by"
     /\ pc = "done"
     /\ params.group_columns # << >>
     /\ params.agg_functions # << >>) =>
        LET returned == out[1].returned[1]
            n == Len(params.group_columns)
            keyOf(row) == SubSeq(row, 1, n)
        IN  /\ Len(returned.rows) = Cardinality(KeyTuples(params.df, params.group_columns))
            /\ {keyOf(returned.rows[k]) : k \in 1..Len(returned.rows)}
                  = KeyTuples(params.df, params.group_columns)
            /\ Len(returned.columns) = n + Len(params.agg_functions)
            /\ (\E a \in Range(params.agg_functions) : Contains(a, "COUNT(*)")) =>
                  \E c \in (n + 1)..Len(returned.columns) :
                     \A k \in 1..Len(returned.rows) :
                        returned.rows[k][c]
                           = Len(GroupRows(params.df, params.group_columns,
                                           keyOf(returned.rows[k])))

\* The rows that satisfy a WHERE condition of the form  column = 'value'.
WhereRows(df, where_cond) ==
    LET words == Split(where_cond)
    IN  Mask(df, {k \in 1..Len(df) : df[k][words[1]] = RemoveChar(words[3], "'")})

\* C14: when a required selection is missing the GROUP BY builder emits no SQL
\* text and tells the user what is missing, and generate_group_by_query given
\* an empty grouping-column list or an empty aggregate list returns neither a
\* query with an empty select list nor an ORDER BY without GROUP BY.
C14_MissingSelectionIsReported ==
    (/\ topic = "group_by"
     /\ pc = "done"
     /\ (params.group_columns = << >> \/ params.agg_functions = << >>)) =>
        LET query == generate_group_by_query(params.group_columns, params.agg_functions,
                                             params.use_order_by, params.limit_results,
                                             params.limit_count)
        IN  /\ out[1].query = None
            /\ out[1] # Generated(None, None, None)
            /\ ~StartsWith(query, "SELECT \n    \nFROM")
            /\ Contains(query, "ORDER BY") => Contains(query, "GROUP BY")

\* C8: every simulator applies all the clauses its generated query shows, in
\* the order filter, group/aggregate, having, sort, limit; in particular the
\* HAVING builder, when its generated query has a WHERE condition, groups only
\* the rows that satisfy the condition and applies the HAVING comparison to
\* the aggregated rows.
C8_HavingGroupsFilteredRows ==
    (/\ topic = "having"
     /\ pc = "done"
     /\ Contains(out[1].query[1], "\nWHERE ")) =>
        out[1].returned[1]
           = calculate_having_result(WhereRows(params.df, params.where_condition),
                                     params.group_column, params.select_aggregates,
                                     params.having_function, params.having_operator,
                                     params.having_value)

\* The chosen aggregate of the rows of a group, not rounded, satisfies the
\* comparison (value in hundredths; the mean is compared as sum / count).
HavingHoldsExactly(rows, having_func, operator, value) ==
    IF having_func = "COUNT(*)" THEN Compare(Len(rows) * 100, operator, value)
    ELSE IF having_func = "SUM(sale_amount)" THEN Compare(SumAmount(rows), operator, value)
    ELSE Compare(SumAmount(rows), operator, value * Len(rows))

\* C9: calculate_having_result returns exactly the groups, one per distinct
\* value of the grouping column, whose COUNT(*), SUM(sale_amount) or
\* AVG(sale_amount) over the rows of the group satisfies the comparison with
\* the value: no satisfying group is left out and no other group is returned.
C9_HavingReturnsMatchingGroups ==
    (topic = "having" /\ pc = "done") =>
        LET returned == out[1].returned[1]
            keys == KeyTuples(params.df, <<params.group_column>>)
            matching == {key \in keys :
                            HavingHoldsExactly(GroupRows(params.df, <<params.group_column>>, key),
                                               params.having_function,
                                               params.having_operator,
                                               params.having_value)}
        IN  /\ Len(returned.rows) = Cardinality(matching)
            /\ {<<returned.rows[k][1]>> : k \in 1..Len(returned.rows)} = matching

----------------------------------------------------------------------------
(* Claims about the navigation of app.py.                                   *)

\* C18: each of the eight page modules defines the entry function that the
\* application dispatches to, so for every page whose module loaded
\* safe_call_function finds the function and does not show the "under
\* development" placeholder.
C18_EntryFunctionsAreDefined ==
    \A k \in 1..Len(out) :
       (topic = "navigation" /\ out[k].module # None) =>
          /\ out[k].function_name \in out[k].module[1]
          /\ out[k].shown # "placeholder"

\* The Home page and the Query Editor were opened and both entry functions
\* (show_home, main) ran.
C18_Witness ==
    /\ topic = "navigation"
    /\ Len(out) = 2
    /\ out[1].page = "01_Home.py" /\ out[1].shown = "called"
    /\ out[2].page = "SQLQueryEditor.py" /\ out[2].shown = "called"

----------------------------------------------------------------------------
(* Claims about the savepoint simulator.                                    *)

\* C19: after any sequence of button presses the savepoints held in the
\* simulator state have pairwise distinct names.
C19_SavepointNamesAreDistinct ==
    topic = "savepoints" =>
       \A i, j \in 1..Len(out.savepoints) :
          i # j => out.savepoints[i].name # out.savepoints[j].name

\* C20: ROLLBACK TO SAVEPOINT s sets the balance to the balance recorded when
\* s was created, discards every savepoint created after s and keeps s and
\* every savepoint created before it, truncates the transaction log to the
\* operations that preceded the creation of s and appends one "ROLLBACK TO
\* SAVEPOINT s" entry, and leaves the transaction active.
C20_RollbackRestoresSavepoint ==
    [][(topic = "savepoints" /\ pc' = "rollback") =>
          \E k \in 1..Len(out.savepoints) :
             LET s == out.savepoints[k]
             IN  /\ s.name = params'.rollback_target[1]
                 /\ out'.balance = s.balance
                 /\ out'.savepoints = SubSeq(out.savepoints, 1, k)
                 /\ s.operation_count <= Len(out.operations)
                 /\ out'.operations =
                       Append(SubSeq(out.operations, 1, s.operation_count),
                              "ROLLBACK TO SAVEPOINT " \o s.name)
                 /\ out'.transaction_active
      ]_vars

\* C21: savepoints are scoped to one transaction: whenever no transaction is
\* active the savepoint list is empty, and a transaction that has just been
\* started holds no savepoint (every savepoint in the list was created after
\* the most recent START TRANSACTION).
C21_SavepointsBelongToTheTransaction ==
    topic = "savepoints" =>
       /\ ~out.transaction_active => out.savepoints = << >>
       /\ pc = "start" => out.savepoints = << >>

\* The DEPOSIT amounts minus the WITHDRAW amounts listed in a transaction log.
RECURSIVE NetOfLog(_)
NetOfLog(operations) ==
    IF operations = << >> THEN 0
    ELSE LET op == Head(operations)
             amount == IF StartsWith(op, "DEPOSIT +$")
                       THEN ParseInt(SubSeq(op, 11, Len(op)))
                       ELSE IF StartsWith(op, "WITHDRAW -$")
                       THEN 0 - ParseInt(SubSeq(op, 12, Len(op)))
                       ELSE 0
         IN  amount + NetOfLog(Tail(operations))

\* C22: while a transaction is active the balance equals the balance at its
\* START TRANSACTION plus the DEPOSIT amounts and minus the WITHDRAW amounts
\* listed in the transaction log, also after a ROLLBACK TO SAVEPOINT.  The
\* log of a transaction that has just started lists neither, so the claim is
\* that no press other than START TRANSACTION changes the difference between
\* the balance and the net amount of the log while the transaction stays
\* active.
C22_BalanceFollowsTheLog ==
    [][(/\ topic = "savepoints"
        /\ out.transaction_active
        /\ out'.transaction_active
        /\ pc' # "start") =>
          out'.balance - NetOfLog(out'.operations)
             = out.balance - NetOfLog(out.operations)
      ]_vars

\* C23: the balance of the savepoint simulator is never negative: no press
\* of START TRANSACTION, CREATE SAVEPOINT, DEPOSIT, WITHDRAW, ROLLBACK TO
\* SAVEPOINT or COMMIT brings it below 0, and a WITHDRAW of more than the
\* balance leaves the balance and the transaction log unchanged.
C23_BalanceIsNeverNegative ==
    [][topic = "savepoints" =>
          /\ out.balance >= 0
          /\ out'.balance >= 0
          /\ (pc' = "withdraw" /\ params'.amount > out.balance) =>
                /\ out'.balance = out.balance
                /\ out'.operations = out.operations
      ]_vars

\* A WITHDRAW of 500 was pressed with the balance at 0 in a transaction that
\* had just been started.
C23_Witness ==
    /\ topic = "savepoints"
    /\ pc = "withdraw"
    /\ params.amount = 500
    /\ out.balance = 0
    /\ out.operations = <<"START TRANSACTION">>
    /\ out.transaction_active

----------------------------------------------------------------------------
(* Claims about the aggregate calculator.                                   *)

\* C24: pressing Generate Query in the aggregate calculator completes
\* normally for every combination of controls, including when Add WHERE
\* condition is unticked: no variable is read before it has been assigned
\* and no exception leaves the function.
C24_GenerateQueryCompletes ==
    (topic = "aggregate" /\ pc = "done") => out[1].raised = None

\* C25: calculate_window_result, for every window function of the menu,
\* every PARTITION BY option and every ORDER BY option, returns a table with
\* as many rows as its input and a window_result column, never an empty
\* table.
C25_WindowResultHasEveryRow ==
    (topic = "window" /\ pc = "done") =>
       /\ Len(out[1].rows) = Len(params.df)
       /\ \E c \in 1..Len(out[1].columns) : out[1].columns[c] = "window_result"

----------------------------------------------------------------------------
(* Claims about the Bank Transfer Simulator, checked under TransferSpec.    *)

\* C27: a transfer of amount A from account X to account Y that is not
\* flagged as an error shows after balances in which X is its before balance
\* minus A, Y is its before balance plus A and the four other accounts are
\* unchanged; with the error flag set, all six after balances equal the
\* before balances.
C27_TransferMovesTheAmount ==
    (topic = "transfer" /\ pc = "done") =>
        LET before == out[1].before
            after == out[1].after
        IN  /\ after.Account = before.Account
            /\ \A k \in 1..Len(before.Account) :
                  after.Balance[k] =
                     IF params.simulate_error THEN before.Balance[k]
                     ELSE IF before.Account[k] = params.from_account
                     THEN before.Balance[k] - params.amount
                     ELSE IF before.Account[k] = params.to_account
                     THEN before.Balance[k] + params.amount
                     ELSE before.Balance[k]

====
